---------------------------- MODULE Spec2Model ----------------------------
(***************************************************************************)
(* Hook manager (pkg/hooks/manager.go) and Secret Leak Guard               *)
(* (pkg/hooks/secret_guard.go) of picoclaw.                                *)
(*                                                                         *)
(* Text is a sequence of one-character strings, so that the guard's        *)
(* regular expressions and json.Marshal are computed character by          *)
(* character.                                                              *)
(***************************************************************************)
EXTENDS Integers, Sequences, FiniteSets, TLC

VARIABLES
    beforeTool,      \* Manager.beforeTool     []BeforeToolHook
    afterTool,       \* Manager.afterTool      []AfterToolHook
    beforeOutbound,  \* Manager.beforeOutbound []BeforeOutboundHook
    onError,         \* Manager.onError        []ErrorHook
    muW,             \* Manager.mu: the goroutine holding the write lock
    muR,             \* Manager.mu: the goroutines holding a read lock
    th,              \* per goroutine: the frame of the call it is in
    calls,           \* per goroutine: the hook invocations of that call
    ctor,            \* which constructor built the manager
    nregs,           \* number of Register* calls started so far
    nruns,           \* number of Run* and EmitError calls started so far
    gtext,           \* guard scan: the text under scan
    gshape,          \* guard scan: how gtext was built
    gres,            \* guard scan: containsSecret's answer
    gpc,             \* guard scan: position
    dIn,             \* DSN normalization: the DSN given
    dShape,          \* DSN normalization: how dIn was built
    dOut,            \* DSN normalization: ensurePostgresSSLMode's result
    dPc,             \* DSN normalization: position
    env,             \* per process: the value of PICOCLAW_TRACES_DB_URL
    once,            \* per process: the state of the sync.Once
    globalWriter,    \* per process: the package variable globalWriter
    pool,            \* per process: the *sql.DB that sql.Open returned
    ini,             \* per process: the frame of newTraceWriterFromEnv
    gw,              \* per goroutine: the frame of its GlobalTraceWriter call
    catalog,         \* the database: the schema objects that exist
    ninit,           \* per process: number of runs of newTraceWriterFromEnv
    nenv,            \* number of changes of the environment so far
    ncalls,          \* number of GlobalTraceWriter calls started so far
    rErr,            \* error classification: the error given
    rRes,            \* error classification: isSchemaRaceError's answer
    rPc,             \* error classification: position
    tw,              \* recording: the *TraceWriter the runtime holds
    runs,            \* recording: per Run, toolEvents, errorCount and mu
    toolRows,        \* recording: the rows of table tool_events, in insert order
    rf,              \* recording: per goroutine, the frame of its call
    recCalls,        \* recording: per Run, the calls that got past the entry check
    recFailed,       \* recording: per Run, the calls whose insert failed
    nrec,            \* recording: number of calls started so far
    traces,          \* finishing: the rows of table traces, in insert order
    runEvents,       \* finishing: the rows of table run_events, in insert order
    ff,              \* finishing: per goroutine, the frame of its call
    ctx,             \* context: the chain of values, innermost last
    cOp,             \* context: the last derivation and the context it started from
    aKey,            \* argument scan: the key of the argument
    aShape,          \* argument scan: how the text was built
    aTool,           \* argument scan: what BeforeTool returned
    aOut,            \* argument scan: what BeforeOutbound returned
    aPc,             \* argument scan: position
    stack,           \* nested calls: the suspended frames of the goroutine, innermost last
    nnest            \* nested calls: number of calls the goroutine started itself

hookVars == <<beforeTool, afterTool, beforeOutbound, onError, muW, muR, th, calls, ctor, nregs, nruns>>
guardVars == <<gtext, gshape, gres, gpc>>
dsnVars == <<dIn, dShape, dOut, dPc>>
writerVars == <<env, once, globalWriter, pool, ini, gw, catalog, ninit, nenv, ncalls>>
raceVars == <<rErr, rRes, rPc>>
runVars == <<tw, runs, toolRows, rf, recCalls, recFailed, nrec>>
finVars == <<traces, runEvents, ff>>
ctxVars == <<ctx, cOp>>
argVars == <<aKey, aShape, aTool, aOut, aPc>>
nestVars == <<stack, nnest>>
moreVars == <<finVars, ctxVars, argVars, nestVars>>
traceVars == <<dsnVars, writerVars, raceVars, runVars, moreVars>>
vars == <<beforeTool, afterTool, beforeOutbound, onError, muW, muR, th, calls, ctor, nregs, nruns,
          gtext, gshape, gres, gpc, dIn, dShape, dOut, dPc,
          env, once, globalWriter, pool, ini, gw, catalog, ninit, nenv, ncalls,
          rErr, rRes, rPc, tw, runs, toolRows, rf, recCalls, recFailed, nrec,
          traces, runEvents, ff, ctx, cOp, aKey, aShape, aTool, aOut, aPc, stack, nnest>>

---------------------------------------------------------------------------
(* Characters and text *)

Lowers == {"a","b","c","d","e","f","g","h","i","j","k","l","m",
           "n","o","p","q","r","s","t","u","v","w","x","y","z"}

Uppers == {"A","B","C","D","E","F","G","H","I","J","K","L","M",
           "N","O","P","Q","R","S","T","U","V","W","X","Y","Z"}

Digits == {"0","1","2","3","4","5","6","7","8","9"}

LowerSeq == <<"a","b","c","d","e","f","g","h","i","j","k","l","m",
              "n","o","p","q","r","s","t","u","v","w","x","y","z">>

UpperSeq == <<"A","B","C","D","E","F","G","H","I","J","K","L","M",
              "N","O","P","Q","R","S","T","U","V","W","X","Y","Z">>

FoldMap == [c \in Uppers |-> LowerSeq[CHOOSE k \in 1..26 : UpperSeq[k] = c]]

\* mutation: the patterns are matched case-sensitively
FoldNothing(c) == c

\* (?i): a pattern letter matches both cases of the text's letter
Fold(c) == IF c \in Uppers THEN FoldMap[c] ELSE c

LowersAndDigits == Lowers \cup Digits

\* [a-z0-9] under (?i)
IsAlnum(c) == Fold(c) \in LowersAndDigits

\* \w of RE2: [0-9A-Za-z_]
IsWord(c) == IsAlnum(c) \/ c = "_"

\* \s of RE2: [\t\n\f\r ]
IsSpace(c) == c \in {" ", "\t", "\n", "\r", "\f"}

\* \b at position p (between s[p-1] and s[p]), p in 1..Len(s)+1
WordBoundary(s, p) ==
    LET before == p > 1 /\ IsWord(s[p - 1])
        after  == p <= Len(s) /\ IsWord(s[p])
    IN  before # after

\* the literal lit (lower case) occurs in s at position p, case-insensitively
LitAt(s, p, lit) ==
    /\ p >= 1
    /\ p + Len(lit) - 1 <= Len(s)
    /\ \A k \in 1..Len(lit) : Fold(s[p + k - 1]) = lit[k]

\* every character of s[from..to-1] satisfies the class
AllIn(s, from, to, Class(_)) == \A k \in from..(to - 1) : Class(s[k])

RECURSIVE TrimLeft(_)
TrimLeft(s) == IF s # <<>> /\ IsSpace(Head(s)) THEN TrimLeft(Tail(s)) ELSE s

RECURSIVE TrimRight(_)
TrimRight(s) ==
    IF s # <<>> /\ IsSpace(s[Len(s)]) THEN TrimRight(SubSeq(s, 1, Len(s) - 1)) ELSE s

\* strings.TrimSpace
TrimSpace(s) == TrimRight(TrimLeft(s))

RECURSIVE Rep(_, _)
Rep(c, n) == IF n <= 0 THEN <<>> ELSE <<c>> \o Rep(c, n - 1)

---------------------------------------------------------------------------
(* Secret Leak Guard: the five patterns of NewSecretLeakGuard *)

MinSk == 16
MinGhp == 20
MinXox == 12
MinApiKey == 12

\* mutation: one character fewer suffices after sk-
MatchSkOneShort(s) ==
    \E p \in 1..Len(s) :
        /\ LitAt(s, p, <<"s","k","-">>)
        /\ WordBoundary(s, p)
        /\ \E e \in (p + 3 + MinSk - 1)..(Len(s) + 1) :
              AllIn(s, p + 3, e, IsAlnum) /\ WordBoundary(s, e)

\* (?i)\bsk-[a-z0-9]{16,}\b
MatchSk(s) ==
    \E p \in 1..Len(s) :
        /\ LitAt(s, p, <<"s","k","-">>)
        /\ WordBoundary(s, p)
        /\ \E e \in (p + 3 + MinSk)..(Len(s) + 1) :
              AllIn(s, p + 3, e, IsAlnum) /\ WordBoundary(s, e)

\* mutation: one more character is asked for after ghp_
MatchGhpOffByOne(s) ==
    \E p \in 1..Len(s) :
        /\ LitAt(s, p, <<"g","h","p","_">>)
        /\ WordBoundary(s, p)
        /\ \E e \in (p + 4 + MinGhp + 1)..(Len(s) + 1) :
              AllIn(s, p + 4, e, IsAlnum) /\ WordBoundary(s, e)

\* (?i)\bghp_[a-z0-9]{20,}\b
MatchGhp(s) ==
    \E p \in 1..Len(s) :
        /\ LitAt(s, p, <<"g","h","p","_">>)
        /\ WordBoundary(s, p)
        /\ \E e \in (p + 4 + MinGhp)..(Len(s) + 1) :
              AllIn(s, p + 4, e, IsAlnum) /\ WordBoundary(s, e)

IsXoxKind(c) == Fold(c) \in {"b","a","p","r","s"}

IsAlnumHyphen(c) == IsAlnum(c) \/ c = "-"

\* (?i)\bxox[baprs]-[a-z0-9-]{12,}\b
MatchXox(s) ==
    \E p \in 1..Len(s) :
        /\ LitAt(s, p, <<"x","o","x">>)
        /\ WordBoundary(s, p)
        /\ p + 4 <= Len(s)
        /\ IsXoxKind(s[p + 3])
        /\ s[p + 4] = "-"
        /\ \E e \in (p + 5 + MinXox)..(Len(s) + 1) :
              AllIn(s, p + 5, e, IsAlnumHyphen) /\ WordBoundary(s, e)

IsKeyChar(c) == IsAlnum(c) \/ c \in {"_", "-"}

\* (?i)\bapi[_-]?key\s*[:=]\s*["']?[a-z0-9_\-]{12,}
MatchApiKey(s) ==
    \E p \in 1..Len(s) :
        /\ LitAt(s, p, <<"a","p","i">>)
        /\ WordBoundary(s, p)
        /\ \E k \in {p + 3} \cup {q \in {p + 4} : q - 1 <= Len(s) /\ s[q - 1] \in {"_", "-"}} :
              /\ LitAt(s, k, <<"k","e","y">>)
              /\ \E a \in (k + 3)..Len(s) :
                    /\ AllIn(s, k + 3, a, IsSpace)
                    /\ s[a] \in {":", "="}
                    /\ \E b \in (a + 1)..Len(s) :
                          /\ AllIn(s, a + 1, b, IsSpace)
                          /\ \E c \in {b} \cup {q \in {b + 1} : s[b] \in {"\"", "'"}} :
                                /\ c + MinApiKey - 1 <= Len(s)
                                /\ AllIn(s, c, c + MinApiKey, IsKeyChar)

IsLetterOrBlank(c) == Fold(c) \in Lowers \/ c = " "

\* (?i)-----begin [a-z ]*private key-----
MatchPem(s) ==
    \E p \in 1..Len(s) :
        /\ LitAt(s, p, <<"-","-","-","-","-","b","e","g","i","n"," ">>)
        /\ \E m \in (p + 11)..Len(s) :
              /\ AllIn(s, p + 11, m, IsLetterOrBlank)
              /\ LitAt(s, m, <<"p","r","i","v","a","t","e"," ","k","e","y","-","-","-","-","-">>)

MatchAnyPattern(s) ==
    MatchSk(s) \/ MatchGhp(s) \/ MatchXox(s) \/ MatchApiKey(s) \/ MatchPem(s)

\* SecretLeakGuard.containsSecret
containsSecret(text) ==
    LET trimmed == TrimSpace(text)
    IN  IF trimmed = <<>> THEN FALSE ELSE MatchAnyPattern(trimmed)

---------------------------------------------------------------------------
(* json.Marshal of a map[string]any whose values are strings.  A map is a
   record: nil tells the nil map, kv is the sequence of <<key, value>>
   entries in key order (json.Marshal sorts the keys). *)

\* encoding/json's escaping of one character of a string (HTML escaping on)
EscapeChar(c) ==
    CASE c = "\"" -> <<"\\", "\"">>
      [] c = "\\" -> <<"\\", "\\">>
      [] c = "\n" -> <<"\\", "n">>
      [] c = "\r" -> <<"\\", "r">>
      [] c = "\t" -> <<"\\", "t">>
      [] c = "\f" -> <<"\\", "u", "0", "0", "0", "c">>
      [] c = "<"  -> <<"\\", "u", "0", "0", "3", "c">>
      [] c = ">"  -> <<"\\", "u", "0", "0", "3", "e">>
      [] c = "&"  -> <<"\\", "u", "0", "0", "2", "6">>
      [] OTHER    -> <<c>>

RECURSIVE EscapeString(_)
EscapeString(s) == IF s = <<>> THEN <<>> ELSE EscapeChar(Head(s)) \o EscapeString(Tail(s))

MarshalString(s) == <<"\"">> \o EscapeString(s) \o <<"\"">>

RECURSIVE MarshalEntries(_)
MarshalEntries(m) ==
    IF m = <<>> THEN <<>>
    ELSE MarshalString(m[1][1]) \o <<":">> \o MarshalString(m[1][2])
         \o (IF Len(m) > 1 THEN <<",">> ELSE <<>>) \o MarshalEntries(Tail(m))

\* json.Marshal(in.Args)
Marshal(args) ==
    IF args.nil THEN <<"n","u","l","l">>
    ELSE <<"{">> \o MarshalEntries(args.kv) \o <<"}">>

---------------------------------------------------------------------------
(* Values *)

NoErr == "nil"
ErrToolSecret == "blocked by hook: tool arguments appear to contain secrets"
ErrOutboundSecret == "blocked by hook: outbound content appears to contain secrets"

\* mutation: the guard reports its block with the error of any failing handler
GuardBeforeToolGeneric(in) ==
    LET text == Marshal(in.Args)
    IN  IF containsSecret(text) THEN [val |-> in, err |-> "denied"]
        ELSE [val |-> in, err |-> NoErr]

\* SecretLeakGuard.BeforeTool
GuardBeforeTool(in) ==
    LET text == Marshal(in.Args)
    IN  IF containsSecret(text) THEN [val |-> in, err |-> ErrToolSecret]
        ELSE [val |-> in, err |-> NoErr]

\* SecretLeakGuard.BeforeOutbound
GuardBeforeOutbound(msg) ==
    IF containsSecret(msg.Content) THEN [val |-> msg, err |-> ErrOutboundSecret]
    ELSE [val |-> msg, err |-> NoErr]

\* the handlers a caller registers: the guard's two methods and
\* representative handlers of each function type
NilHook == "nil"
BeforeToolHooks == {"bt_rename", "bt_deny"}
AfterToolHooks == {"at_audit", "at_metrics"}
BeforeOutboundHooks == {"bo_reroute", "bo_deny"}
ErrorHooks == {"oe_log", "oe_alert"}

ErrDenied == "denied"

---------------------------------------------------------------------------
(* Inputs of the calls *)

TokenKey == <<"t","o","k","e","n">>
GhpToken == <<"g","h","p","_","a","b","c","d","e","f","g","h","i","j",
              "1","2","3","4","5","6","7","8","9","0">>
QueryKey == <<"q","u","e","r","y">>
WeatherQuery == <<"w","e","a","t","h","e","r"," ","i","n"," ","B","e","r","l","i","n">>

ArgsToken == [nil |-> FALSE, kv |-> << <<TokenKey, GhpToken>> >>]
ArgsQuery == [nil |-> FALSE, kv |-> << <<QueryKey, WeatherQuery>> >>]
ConfigKey == <<"c","o","n","f","i","g">>
ApiKeyAssignment == <<"a","p","i","_","k","e","y","=">> \o Rep("k", MinApiKey)
ArgsConfig == [nil |-> FALSE, kv |-> << <<ConfigKey, ApiKeyAssignment>> >>]
ArgsNil   == [nil |-> TRUE, kv |-> <<>>]
ArgsSet == {ArgsToken, ArgsQuery, ArgsConfig, ArgsNil}

Invocations == {[Name |-> "exec", Args |-> a, Channel |-> "telegram", ChatID |-> "42"] :
                   a \in ArgsSet}

AfterInvocations == {[Name |-> "exec", Args |-> ArgsQuery, Channel |-> "telegram",
                      ChatID |-> "42"]}

Outcomes == {[IsError |-> b, ForLLM |-> "out", ForUser |-> "", Async |-> FALSE] :
                b \in BOOLEAN}

ContentPlain == <<"d","o","n","e">>
ContentSecret == <<"k","e","y",":"," ","s","k","-">> \o Rep("a", MinSk)

Messages == {[Channel |-> "telegram", ChatID |-> "42", Content |-> c] :
                c \in {ContentPlain, ContentSecret}}

\* a BeforeToolHook applied: rename rewrites, deny rewrites and fails, inject
\* puts a credential in the arguments
ApplyBeforeTool(h, in) ==
    CASE h = "bt_rename" -> [val |-> [in EXCEPT !.Name = "renamed"], err |-> NoErr]
      [] h = "bt_deny"   -> [val |-> [in EXCEPT !.Name = "denied"], err |-> ErrDenied]
      [] h = "bt_inject" -> [val |-> [in EXCEPT !.Args = ArgsToken], err |-> NoErr]
      [] h = "bt_guard"  -> GuardBeforeTool(in)

\* a BeforeOutboundHook applied
ApplyBeforeOutbound(h, msg) ==
    CASE h = "bo_reroute" -> [val |-> [msg EXCEPT !.Channel = "email", !.ChatID = "rerouted"],
                              err |-> NoErr]
      [] h = "bo_deny"    -> [val |-> [msg EXCEPT !.ChatID = "denied"], err |-> ErrDenied]
      [] h = "bo_inject"  -> [val |-> [msg EXCEPT !.Content = ContentSecret], err |-> NoErr]
      [] h = "bo_guard"   -> GuardBeforeOutbound(msg)

Stages == {"agent_loop"}
Errors == {NoErr, "boom"}
Metas == {{<<"k", "v">>}}

Receivers == {"mgr", "nil"}

\* the (receiver, handler) pairs of a Register call on a list whose handlers
\* are hs: every handler and the nil handler on the manager, one handler on
\* the nil *Manager
RegisterInputs(hs) ==
    ({"mgr"} \X (hs \cup {NilHook})) \cup ({"nil"} \X {CHOOSE h \in hs : TRUE})

\* the (receiver, argument) pairs of a Run* or EmitError call with arguments
\* xs: every argument on the manager, one on the nil *Manager
CallInputs(xs) == ({"mgr"} \X xs) \cup ({"nil"} \X {CHOOSE x \in xs : TRUE})

\* goroutines: every one registers handlers, the dispatchers also run the
\* pipelines
Threads == {"g1", "g2"}
Dispatchers == {"g1"}
None == "none"

MaxRegs == 2
MaxRuns == 1

---------------------------------------------------------------------------
(* The hook manager.  A goroutine's frame: op is the method it is in, pc its
   position, recv the receiver (a manager or the nil *Manager), arg the
   method's argument, hooks/i/cur/err the locals of the Run* loops,
   ehooks/j and stage/eerr/meta the locals and arguments of EmitError,
   ret what the method returned.  atCall and eAtCall remember the list as
   it was when the method (or the EmitError it makes) was entered. *)

Frame0 ==
    [op |-> "idle", pc |-> "idle", recv |-> "mgr", arg |-> <<>>,
     hooks |-> <<>>, i |-> 0, cur |-> <<>>, err |-> NoErr,
     ehooks |-> <<>>, j |-> 0, stage |-> "", eerr |-> NoErr, meta |-> {},
     ret |-> <<>>, atCall |-> <<>>, eAtCall |-> <<>>]

RegisterOps == {"RegisterBeforeTool", "RegisterAfterTool", "RegisterBeforeOutbound",
                "RegisterOnError"}
RunOps == {"RunBeforeTool", "RunAfterTool", "RunBeforeOutbound"}

\* the list a method works on
ListOf(op) ==
    CASE op \in {"RegisterBeforeTool", "RunBeforeTool"}         -> beforeTool
      [] op \in {"RegisterAfterTool", "RunAfterTool"}           -> afterTool
      [] op \in {"RegisterBeforeOutbound", "RunBeforeOutbound"} -> beforeOutbound
      [] op \in {"RegisterOnError", "EmitError"}                -> onError

\* NewManager
NewManager ==
    /\ beforeTool = <<>>
    /\ afterTool = <<>>
    /\ beforeOutbound = <<>>
    /\ onError = <<>>

\* mutation: the guard is registered on the before-tool list only
NewDefaultManagerToolOnly ==
    /\ beforeTool = <<"bt_guard">>
    /\ afterTool = <<>>
    /\ beforeOutbound = <<>>
    /\ onError = <<>>

\* mutation: the guard is registered on the before-outbound list only
NewDefaultManagerOutboundOnly ==
    /\ beforeTool = <<>>
    /\ afterTool = <<>>
    /\ beforeOutbound = <<"bo_guard">>
    /\ onError = <<>>

\* NewDefaultManager
NewDefaultManager ==
    /\ beforeTool = <<"bt_guard">>
    /\ afterTool = <<>>
    /\ beforeOutbound = <<"bo_guard">>
    /\ onError = <<>>

\* a call begins: the frame is fresh, the record of hook invocations empty
Enter(t, f) ==
    /\ th[t].pc \in {"idle", "done"}
    /\ th' = [th EXCEPT ![t] = IF f.pc = "noop" THEN Frame0 ELSE f]
    /\ calls' = [calls EXCEPT ![t] = <<>>]
    /\ CASE f.pc = "noop"       -> UNCHANGED <<nregs, nruns>>
         [] f.op \in RegisterOps -> nregs < MaxRegs /\ nregs' = nregs + 1 /\ nruns' = nruns
         [] OTHER                -> nruns < MaxRuns /\ nruns' = nruns + 1 /\ nregs' = nregs
    /\ UNCHANGED <<beforeTool, afterTool, beforeOutbound, onError, muW, muR, ctor>>
    /\ UNCHANGED <<guardVars, traceVars>>

\* if m == nil || h == nil { return }: a Register* call returns nothing, so
\* the frame of one that returned is the idle frame
RegisterEntry(op, recv, h) ==
    IF recv = "nil" \/ h = NilHook THEN [Frame0 EXCEPT !.op = op, !.pc = "noop"]
    ELSE [Frame0 EXCEPT !.op = op, !.recv = recv, !.arg = h, !.pc = "lock"]

RegisterBeforeTool(t, recv, h) == Enter(t, RegisterEntry("RegisterBeforeTool", recv, h))

RegisterAfterTool(t, recv, h) == Enter(t, RegisterEntry("RegisterAfterTool", recv, h))

RegisterBeforeOutbound(t, recv, h) == Enter(t, RegisterEntry("RegisterBeforeOutbound", recv, h))

RegisterOnError(t, recv, h) == Enter(t, RegisterEntry("RegisterOnError", recv, h))

\* mutation: the write lock is passed without waiting for it
RegLockUnguarded(t) ==
    /\ th[t].pc = "lock"
    /\ muW' = t
    /\ th' = [th EXCEPT ![t].pc = "append"]
    /\ UNCHANGED <<beforeTool, afterTool, beforeOutbound, onError, muR, calls, ctor, nregs, nruns>>
    /\ UNCHANGED <<guardVars, traceVars>>

\* m.mu.Lock()
RegLock(t) ==
    /\ th[t].pc = "lock"
    /\ muW = None /\ muR = {}
    /\ muW' = t
    /\ th' = [th EXCEPT ![t].pc = "append"]
    /\ UNCHANGED <<beforeTool, afterTool, beforeOutbound, onError, muR, calls, ctor, nregs, nruns>>
    /\ UNCHANGED <<guardVars, traceVars>>

\* mutation: the handler is put in front of the list
PrependHook(list, h) == <<h>> \o list

\* append(m.list, h)
AppendHook(list, h) == Append(list, h)

\* m.list = append(m.list, h); the deferred m.mu.Unlock(); return
RegAppend(t) ==
    LET f == th[t] IN
    /\ f.pc = "append"
    /\ beforeTool' = IF f.op = "RegisterBeforeTool" THEN AppendHook(beforeTool, f.arg)
                     ELSE beforeTool
    /\ afterTool' = IF f.op = "RegisterAfterTool" THEN AppendHook(afterTool, f.arg)
                    ELSE afterTool
    /\ beforeOutbound' = IF f.op = "RegisterBeforeOutbound"
                         THEN AppendHook(beforeOutbound, f.arg) ELSE beforeOutbound
    /\ onError' = IF f.op = "RegisterOnError" THEN AppendHook(onError, f.arg) ELSE onError
    /\ muW' = None
    /\ th' = [th EXCEPT ![t] = Frame0]
    /\ UNCHANGED <<muR, calls, ctor, nregs, nruns>>
    /\ UNCHANGED <<guardVars, traceVars>>

\* if m == nil { return in, nil }
RunBeforeTool(t, recv, in) ==
    Enter(t, IF recv = "nil"
             THEN [Frame0 EXCEPT !.op = "RunBeforeTool", !.recv = recv, !.arg = in,
                                 !.pc = "done", !.ret = [val |-> in, err |-> NoErr]]
             ELSE [Frame0 EXCEPT !.op = "RunBeforeTool", !.recv = recv, !.arg = in,
                                 !.pc = "rlock", !.atCall = beforeTool])

\* if m == nil { return }
RunAfterTool(t, recv, in, out) ==
    Enter(t, IF recv = "nil"
             THEN [Frame0 EXCEPT !.op = "RunAfterTool", !.recv = recv, !.arg = <<in, out>>,
                                 !.pc = "done"]
             ELSE [Frame0 EXCEPT !.op = "RunAfterTool", !.recv = recv, !.arg = <<in, out>>,
                                 !.pc = "rlock", !.atCall = afterTool])

\* if m == nil { return msg, nil }
RunBeforeOutbound(t, recv, msg) ==
    Enter(t, IF recv = "nil"
             THEN [Frame0 EXCEPT !.op = "RunBeforeOutbound", !.recv = recv, !.arg = msg,
                                 !.pc = "done", !.ret = [val |-> msg, err |-> NoErr]]
             ELSE [Frame0 EXCEPT !.op = "RunBeforeOutbound", !.recv = recv, !.arg = msg,
                                 !.pc = "rlock", !.atCall = beforeOutbound])

\* a caller's EmitError(ctx, stage, err, meta)
EmitError(t, recv, stage, err, meta) ==
    Enter(t, [Frame0 EXCEPT !.op = "EmitError", !.recv = recv, !.pc = "emit",
                            !.stage = stage, !.eerr = err, !.meta = meta])

\* m.mu.RLock() of RunBeforeTool, RunAfterTool, RunBeforeOutbound
RLock(t) ==
    /\ th[t].pc = "rlock"
    /\ muW = None
    /\ muR' = muR \cup {t}
    /\ th' = [th EXCEPT ![t].pc = "snap"]
    /\ UNCHANGED <<beforeTool, afterTool, beforeOutbound, onError, muW, calls, ctor, nregs, nruns>>
    /\ UNCHANGED <<guardVars, traceVars>>

\* append([]Hook(nil), m.list...): a copy of the list
CopyOf(list) == list

\* mutation: the read lock is kept while the handlers run
SnapshotKeepsRLock(t) ==
    LET f == th[t] IN
    /\ f.pc = "snap"
    /\ th' = [th EXCEPT ![t] = [f EXCEPT !.hooks = CopyOf(ListOf(f.op)), !.i = 1,
                                         !.cur = f.arg, !.pc = "loop"]]
    /\ UNCHANGED <<beforeTool, afterTool, beforeOutbound, onError, muW, muR, calls, ctor,
                   nregs, nruns>>
    /\ UNCHANGED <<guardVars, traceVars>>

\* hooks := append(nil, m.list...); m.mu.RUnlock(); cur := in
Snapshot(t) ==
    LET f == th[t] IN
    /\ f.pc = "snap"
    /\ muR' = muR \ {t}
    /\ th' = [th EXCEPT ![t] = [f EXCEPT !.hooks = CopyOf(ListOf(f.op)), !.i = 1,
                                         !.cur = f.arg, !.pc = "loop"]]
    /\ UNCHANGED <<beforeTool, afterTool, beforeOutbound, onError, muW, calls, ctor, nregs, nruns>>
    /\ UNCHANGED <<guardVars, traceVars>>

\* mutation: the loop ranges over the manager's live list
RangeHooksLive(t) == ListOf(th[t].op)

\* the slice a Run* loop ranges over: its snapshot
RangeHooks(t) == th[t].hooks

\* mutation: the loop walks the slice from its end
HookAtReversed(hooks, i) == hooks[Len(hooks) + 1 - i]

\* for _, h := range hooks: the i-th iteration's handler
HookAt(hooks, i) == hooks[i]

\* mutation: every handler is handed the caller's value
ChainInputOriginal(f) == f.arg

\* the argument RunBeforeTool / RunBeforeOutbound hands to a handler: cur
ChainInput(f) == f.cur

\* mutation: the metadata names the rewritten invocation
ToolMetaCurrent(f) == {<<"tool", f.cur.Name>>}

\* map[string]any{"tool": in.Name}
ToolMeta(f) == {<<"tool", f.arg.Name>>}

\* mutation: the metadata names the rewritten message
OutboundMetaCurrent(f) == {<<"channel", f.cur.Channel>>, <<"chat_id", f.cur.ChatID>>}

\* map[string]any{"channel": msg.Channel, "chat_id": msg.ChatID}
OutboundMeta(f) == {<<"channel", f.arg.Channel>>, <<"chat_id", f.arg.ChatID>>}

\* one iteration of RunBeforeTool's loop: cur, err = h(ctx, cur), and on an
\* error the call m.EmitError(ctx, "before_tool", err, {"tool": in.Name})
BeforeToolInvoke(t) ==
    LET f  == th[t]
        hs == RangeHooks(t)
    IN
    /\ f.op = "RunBeforeTool" /\ f.pc = "loop"
    /\ f.i <= Len(hs)
    /\ LET h == HookAt(hs, f.i)
           r == ApplyBeforeTool(h, ChainInput(f))
       IN  /\ calls' = [calls EXCEPT ![t] = Append(@, [list |-> "beforeTool", hook |-> h,
                                                       arg |-> ChainInput(f), res |-> r])]
           /\ th' = [th EXCEPT ![t] =
                        IF r.err # NoErr
                        THEN [f EXCEPT !.cur = r.val, !.err = r.err, !.pc = "emit",
                                       !.stage = "before_tool", !.eerr = r.err,
                                       !.meta = ToolMeta(f)]
                        ELSE [f EXCEPT !.cur = r.val, !.i = f.i + 1]]
    /\ UNCHANGED <<beforeTool, afterTool, beforeOutbound, onError, muW, muR, ctor, nregs, nruns>>
    /\ UNCHANGED <<guardVars, traceVars>>

\* return cur, nil
BeforeToolReturn(t) ==
    LET f == th[t] IN
    /\ f.op = "RunBeforeTool" /\ f.pc = "loop"
    /\ f.i > Len(RangeHooks(t))
    /\ th' = [th EXCEPT ![t] = [f EXCEPT !.pc = "done", !.ret = [val |-> f.cur, err |-> NoErr]]]
    /\ UNCHANGED <<beforeTool, afterTool, beforeOutbound, onError, muW, muR, calls, ctor, nregs, nruns>>
    /\ UNCHANGED <<guardVars, traceVars>>

\* one iteration of RunAfterTool's loop: h(ctx, in, out)
AfterToolInvoke(t) ==
    LET f  == th[t]
        hs == RangeHooks(t)
    IN
    /\ f.op = "RunAfterTool" /\ f.pc = "loop"
    /\ f.i <= Len(hs)
    /\ calls' = [calls EXCEPT ![t] = Append(@, [list |-> "afterTool", hook |-> HookAt(hs, f.i),
                                                arg |-> f.arg, res |-> <<>>])]
    /\ th' = [th EXCEPT ![t].i = f.i + 1]
    /\ UNCHANGED <<beforeTool, afterTool, beforeOutbound, onError, muW, muR, ctor, nregs, nruns>>
    /\ UNCHANGED <<guardVars, traceVars>>

\* RunAfterTool returns at the end of its loop
AfterToolReturn(t) ==
    LET f == th[t] IN
    /\ f.op = "RunAfterTool" /\ f.pc = "loop"
    /\ f.i > Len(RangeHooks(t))
    /\ th' = [th EXCEPT ![t].pc = "done"]
    /\ UNCHANGED <<beforeTool, afterTool, beforeOutbound, onError, muW, muR, calls, ctor, nregs, nruns>>
    /\ UNCHANGED <<guardVars, traceVars>>

\* one iteration of RunBeforeOutbound's loop: cur, err = h(ctx, cur), and on
\* an error the call m.EmitError(ctx, "before_outbound", err, {...})
BeforeOutboundInvoke(t) ==
    LET f  == th[t]
        hs == RangeHooks(t)
    IN
    /\ f.op = "RunBeforeOutbound" /\ f.pc = "loop"
    /\ f.i <= Len(hs)
    /\ LET h == HookAt(hs, f.i)
           r == ApplyBeforeOutbound(h, ChainInput(f))
       IN  /\ calls' = [calls EXCEPT ![t] = Append(@, [list |-> "beforeOutbound", hook |-> h,
                                                       arg |-> ChainInput(f), res |-> r])]
           /\ th' = [th EXCEPT ![t] =
                        IF r.err # NoErr
                        THEN [f EXCEPT !.cur = r.val, !.err = r.err, !.pc = "emit",
                                       !.stage = "before_outbound", !.eerr = r.err,
                                       !.meta = OutboundMeta(f)]
                        ELSE [f EXCEPT !.cur = r.val, !.i = f.i + 1]]
    /\ UNCHANGED <<beforeTool, afterTool, beforeOutbound, onError, muW, muR, ctor, nregs, nruns>>
    /\ UNCHANGED <<guardVars, traceVars>>

\* return cur, nil
BeforeOutboundReturn(t) ==
    LET f == th[t] IN
    /\ f.op = "RunBeforeOutbound" /\ f.pc = "loop"
    /\ f.i > Len(RangeHooks(t))
    /\ th' = [th EXCEPT ![t] = [f EXCEPT !.pc = "done", !.ret = [val |-> f.cur, err |-> NoErr]]]
    /\ UNCHANGED <<beforeTool, afterTool, beforeOutbound, onError, muW, muR, calls, ctor, nregs, nruns>>
    /\ UNCHANGED <<guardVars, traceVars>>

\* mutation: the caller's value is returned with the error
AfterEmitReturnsArgument(f) ==
    IF f.op \in {"RunBeforeTool", "RunBeforeOutbound"}
    THEN [f EXCEPT !.pc = "done", !.ret = [val |-> f.arg, err |-> f.err]]
    ELSE [f EXCEPT !.pc = "done"]

\* what the caller of EmitError does when it returns: a Run* method
\* returns cur, err; a direct call is over
AfterEmit(f) ==
    IF f.op \in {"RunBeforeTool", "RunBeforeOutbound"}
    THEN [f EXCEPT !.pc = "done", !.ret = [val |-> f.cur, err |-> f.err]]
    ELSE [f EXCEPT !.pc = "done"]

\* mutation: the nil test on err is inverted
EmitSkipsInverted(f) == f.recv = "nil" \/ f.eerr # NoErr

\* EmitError: if m == nil || err == nil { return }
EmitSkips(f) == f.recv = "nil" \/ f.eerr = NoErr

EmitEntry(t) ==
    LET f == th[t] IN
    /\ f.pc = "emit"
    /\ th' = [th EXCEPT ![t] = IF EmitSkips(f) THEN AfterEmit(f)
                               ELSE [f EXCEPT !.pc = "e_rlock", !.eAtCall = onError]]
    /\ UNCHANGED <<beforeTool, afterTool, beforeOutbound, onError, muW, muR, calls, ctor, nregs, nruns>>
    /\ UNCHANGED <<guardVars, traceVars>>

\* EmitError: m.mu.RLock()
EmitRLock(t) ==
    /\ th[t].pc = "e_rlock"
    /\ muW = None
    /\ muR' = muR \cup {t}
    /\ th' = [th EXCEPT ![t].pc = "e_snap"]
    /\ UNCHANGED <<beforeTool, afterTool, beforeOutbound, onError, muW, calls, ctor, nregs, nruns>>
    /\ UNCHANGED <<guardVars, traceVars>>

\* EmitError: hooks := append(nil, m.onError...); m.mu.RUnlock()
EmitSnapshot(t) ==
    LET f == th[t] IN
    /\ f.pc = "e_snap"
    /\ muR' = muR \ {t}
    /\ th' = [th EXCEPT ![t] = [f EXCEPT !.ehooks = CopyOf(onError), !.j = 1, !.pc = "e_loop"]]
    /\ UNCHANGED <<beforeTool, afterTool, beforeOutbound, onError, muW, calls, ctor, nregs, nruns>>
    /\ UNCHANGED <<guardVars, traceVars>>

\* the slice EmitError's loop ranges over: its snapshot
EmitRangeHooks(t) == th[t].ehooks

\* one iteration of EmitError's loop: h(ctx, stage, err, meta)
EmitInvoke(t) ==
    LET f  == th[t]
        hs == EmitRangeHooks(t)
    IN
    /\ f.pc = "e_loop"
    /\ f.j <= Len(hs)
    /\ calls' = [calls EXCEPT ![t] = Append(@, [list |-> "onError", hook |-> HookAt(hs, f.j),
                                                arg |-> <<f.stage, f.eerr, f.meta>>,
                                                res |-> <<>>])]
    /\ th' = [th EXCEPT ![t].j = f.j + 1]
    /\ UNCHANGED <<beforeTool, afterTool, beforeOutbound, onError, muW, muR, ctor, nregs, nruns>>
    /\ UNCHANGED <<guardVars, traceVars>>

\* EmitError returns at the end of its loop
EmitReturn(t) ==
    LET f == th[t] IN
    /\ f.pc = "e_loop"
    /\ f.j > Len(EmitRangeHooks(t))
    /\ th' = [th EXCEPT ![t] = AfterEmit(f)]
    /\ UNCHANGED <<beforeTool, afterTool, beforeOutbound, onError, muW, muR, calls, ctor, nregs, nruns>>
    /\ UNCHANGED <<guardVars, traceVars>>

---------------------------------------------------------------------------
(* The manager under concurrent callers *)

\* processes, and the goroutines of each that ask for the trace writer
Procs == {"p1", "p2"}
Goroutines == {"p1.a", "p1.b", "p2.a"}
ProcOf(t) == IF t = "p2.a" THEN "p2" ELSE "p1"

\* (*TraceWriter)(nil), and &TraceWriter{enabled: false}
NilWriter == [id |-> 0, enabled |-> FALSE, db |-> "nil"]
DisabledWriter(n) == [id |-> n, enabled |-> FALSE, db |-> "nil"]

\* the nil error of the database driver; its errors are records from which
\* their text is built
ErrNil == [phrase |-> "nil", object |-> "", tail |-> "", upper |-> FALSE]

IniFrame0 ==
    [pc |-> "idle", owner |-> "", dsn |-> <<>>, w |-> NilWriter, k |-> 0, attempt |-> 0,
     err |-> ErrNil, seen |-> FALSE, failed |-> "", log |-> <<>>, trail |-> <<>>]

GwFrame0 == [pc |-> "idle", ret |-> NilWriter]

WriterIdle ==
    /\ env = [p \in Procs |-> <<>>]
    /\ once = [p \in Procs |-> "new"]
    /\ globalWriter = [p \in Procs |-> NilWriter]
    /\ pool = [p \in Procs |-> "none"]
    /\ ini = [p \in Procs |-> IniFrame0]
    /\ gw = [t \in Goroutines |-> GwFrame0]
    /\ catalog = {}
    /\ ninit = [p \in Procs |-> 0]
    /\ nenv = 0
    /\ ncalls = 0

GuardIdle ==
    /\ gtext = <<>>
    /\ gshape = <<>>
    /\ gres = FALSE
    /\ gpc = "off"

DsnIdle ==
    /\ dIn = <<>>
    /\ dShape = <<>>
    /\ dOut = <<>>
    /\ dPc = "off"

RaceIdle ==
    /\ rErr = ErrNil
    /\ rRes = FALSE
    /\ rPc = "off"

\* the Runs of the process, and the goroutines that record into them
RunIds == {"task1", "task2"}
Recorders == {"w1", "w2"}
NilRun == "nil"

Run0 == [toolEvents |-> <<>>, errorCount |-> 0, mu |-> "none"]

RecFrame0 ==
    [pc |-> "idle", op |-> "", run |-> NilRun, ev |-> <<>>, resultLen |-> 0,
     seen |-> <<>>, seenErrors |-> 0]

RunsIdle ==
    /\ tw = NilWriter
    /\ runs = [r \in RunIds |-> Run0]
    /\ toolRows = <<>>
    /\ rf = [t \in Recorders |-> RecFrame0]
    /\ recCalls = [r \in RunIds |-> 0]
    /\ recFailed = [r \in RunIds |-> 0]
    /\ nrec = 0

\* the goroutine that finishes Runs and writes milestone rows
Finishers == {"f1"}

FinFrame0 ==
    [pc |-> "idle", op |-> "", run |-> NilRun, exitCode |-> 0, endedAt |-> 0,
     durationMS |-> 0, toolEvents |-> <<>>, errorCount |-> 0, sent |-> FALSE,
     err |-> ErrNil, k |-> 0, attempt |-> 0, log |-> <<>>]

FinIdle ==
    /\ traces = <<>>
    /\ runEvents = <<>>
    /\ ff = [t \in Finishers |-> FinFrame0]

\* context.Background()
Background == <<>>

CtxOp0 == [op |-> "", arg |-> "", before |-> Background]

CtxIdle ==
    /\ ctx = Background
    /\ cOp = CtxOp0

ArgIdle ==
    /\ aKey = <<>>
    /\ aShape = <<>>
    /\ aTool = ""
    /\ aOut = ""
    /\ aPc = "off"

NestIdle ==
    /\ stack = <<>>
    /\ nnest = 0

MoreIdle == FinIdle /\ CtxIdle /\ ArgIdle /\ NestIdle

TraceIdle == DsnIdle /\ WriterIdle /\ RaceIdle /\ RunsIdle /\ MoreIdle

Init ==
    /\ ctor \in {"NewManager", "NewDefaultManager"}
    /\ IF ctor = "NewManager" THEN NewManager ELSE NewDefaultManager
    /\ muW = None
    /\ muR = {}
    /\ th = [t \in Threads |-> Frame0]
    /\ calls = [t \in Threads |-> <<>>]
    /\ nregs = 0
    /\ nruns = 0
    /\ GuardIdle
    /\ TraceIdle

Next ==
    \/ \E t \in Threads, a \in RegisterInputs(BeforeToolHooks) :
          RegisterBeforeTool(t, a[1], a[2])
    \/ \E t \in Threads, a \in RegisterInputs(AfterToolHooks) :
          RegisterAfterTool(t, a[1], a[2])
    \/ \E t \in Threads, a \in RegisterInputs(BeforeOutboundHooks) :
          RegisterBeforeOutbound(t, a[1], a[2])
    \/ \E t \in Threads, a \in RegisterInputs(ErrorHooks) :
          RegisterOnError(t, a[1], a[2])
    \/ \E t \in Threads : RegLock(t)
    \/ \E t \in Threads : RegAppend(t)
    \/ \E t \in Dispatchers, a \in CallInputs(Invocations) :
          RunBeforeTool(t, a[1], a[2])
    \/ \E t \in Dispatchers, a \in CallInputs(AfterInvocations \X Outcomes) :
          RunAfterTool(t, a[1], a[2][1], a[2][2])
    \/ \E t \in Dispatchers, a \in CallInputs(Messages) :
          RunBeforeOutbound(t, a[1], a[2])
    \/ \E t \in Dispatchers, a \in CallInputs(Stages \X Errors \X Metas) :
          EmitError(t, a[1], a[2][1], a[2][2], a[2][3])
    \/ \E t \in Threads : RLock(t)
    \/ \E t \in Threads : Snapshot(t)
    \/ \E t \in Threads : BeforeToolInvoke(t)
    \/ \E t \in Threads : BeforeToolReturn(t)
    \/ \E t \in Threads : AfterToolInvoke(t)
    \/ \E t \in Threads : AfterToolReturn(t)
    \/ \E t \in Threads : BeforeOutboundInvoke(t)
    \/ \E t \in Threads : BeforeOutboundReturn(t)
    \/ \E t \in Threads : EmitEntry(t)
    \/ \E t \in Threads : EmitRLock(t)
    \/ \E t \in Threads : EmitSnapshot(t)
    \/ \E t \in Threads : EmitInvoke(t)
    \/ \E t \in Threads : EmitReturn(t)

Spec == Init /\ [][Next]_vars

---------------------------------------------------------------------------
(* The guard's scan on its own: containsSecret applied to texts built around
   each credential shape.  A text is  pre . head . body . post, where head
   is the fixed beginning of the shape, body has n characters, and head and
   body are in upper case when the shape says so.  For the PEM header the
   body is the key type between "BEGIN " and "PRIVATE KEY". *)

MaxRun == 22

UpperMap == [c \in Lowers |-> UpperSeq[CHOOSE k \in 1..26 : LowerSeq[k] = c]]

ToUpper(c) == IF c \in Lowers THEN UpperMap[c] ELSE c

UpperText(s) == [k \in 1..Len(s) |-> ToUpper(s[k])]

XoxShapes == {"xoxb", "xoxa", "xoxp", "xoxr", "xoxs"}
ApiKeyShapes == {"api_key", "apikey", "api-key"}
ShapeNames == {"sk", "ghp", "pem"} \cup XoxShapes \cup ApiKeyShapes

HeadOf(pat) ==
    CASE pat = "sk"      -> <<"s","k","-">>
      [] pat = "ghp"     -> <<"g","h","p","_">>
      [] pat = "xoxb"    -> <<"x","o","x","b","-">>
      [] pat = "xoxa"    -> <<"x","o","x","a","-">>
      [] pat = "xoxp"    -> <<"x","o","x","p","-">>
      [] pat = "xoxr"    -> <<"x","o","x","r","-">>
      [] pat = "xoxs"    -> <<"x","o","x","s","-">>
      [] pat = "api_key" -> <<"a","p","i","_","k","e","y","=">>
      [] pat = "apikey"  -> <<"a","p","i","k","e","y",":"," ">>
      [] pat = "api-key" -> <<"a","p","i","-","k","e","y"," ","="," ","\"">>
      [] pat = "pem"     -> <<"-","-","-","-","-","b","e","g","i","n"," ">>

PemTail == <<"p","r","i","v","a","t","e"," ","k","e","y","-","-","-","-","-">>

BodyKinds == {"alnum", "dashed"}

\* alnum: letters and digits in turn; dashed: letters with a hyphen at every
\* fourth place
BodyOf(kind, n) ==
    [k \in 1..n |-> IF kind = "alnum" THEN (IF k % 2 = 1 THEN "a" ELSE "7")
                    ELSE (IF k % 4 = 0 THEN "-" ELSE "b")]

Pres == {<<>>, <<" ">>, <<"x">>}
Posts == {<<>>, <<".">>, <<"_">>}

Shapes ==
    [pat : ShapeNames, upper : BOOLEAN, n : 0..MaxRun, body : BodyKinds,
     pre : Pres, post : Posts]

TextOf(sh) ==
    LET core == IF sh.pat = "pem"
                THEN HeadOf("pem")
                     \o (IF sh.n = 0 THEN <<>> ELSE BodyOf(sh.body, sh.n) \o <<" ">>)
                     \o PemTail
                ELSE HeadOf(sh.pat) \o BodyOf(sh.body, sh.n)
    IN  sh.pre \o (IF sh.upper THEN UpperText(core) ELSE core) \o sh.post

HooksIdle ==
    /\ ctor = "NewManager"
    /\ NewManager
    /\ muW = None
    /\ muR = {}
    /\ th = [t \in Threads |-> Frame0]
    /\ calls = [t \in Threads |-> <<>>]
    /\ nregs = 0
    /\ nruns = 0

InitGuard ==
    /\ HooksIdle
    /\ TraceIdle
    /\ gtext = <<>>
    /\ gshape = <<>>
    /\ gres = FALSE
    /\ gpc = "input"

\* a text reaches the guard
GuardInput(sh) ==
    /\ gpc = "input"
    /\ gshape' = sh
    /\ gtext' = TextOf(sh)
    /\ gpc' = "scan"
    /\ UNCHANGED gres
    /\ UNCHANGED <<hookVars, traceVars>>

\* texts of blanks only, the empty text among them
MaxBlank == 3
BlankChars == {" ", "\t", "\n"}
Blanks == UNION {[1..n -> BlankChars] : n \in 0..MaxBlank}

\* a text without any visible character reaches the guard
GuardInputBlank(ws) ==
    /\ gpc = "input"
    /\ gshape' = [pat |-> "blank", upper |-> FALSE, n |-> Len(ws), body |-> "alnum",
                  pre |-> <<>>, post |-> <<>>]
    /\ gtext' = ws
    /\ gpc' = "scan"
    /\ UNCHANGED gres
    /\ UNCHANGED <<hookVars, traceVars>>

\* g.containsSecret(text)
GuardScan ==
    /\ gpc = "scan"
    /\ gres' = containsSecret(gtext)
    /\ gpc' = "done"
    /\ UNCHANGED <<gtext, gshape>>
    /\ UNCHANGED <<hookVars, traceVars>>

NextGuard ==
    \/ gpc = "input" /\ \E sh \in Shapes : GuardInput(sh)
    \/ gpc = "input" /\ \E ws \in Blanks : GuardInputBlank(ws)
    \/ GuardScan

SpecGuard == InitGuard /\ [][NextGuard]_vars

---------------------------------------------------------------------------
(* Trace writer (pkg/observability/traces.go): connection-string
   normalization.  A DSN is  base . query . sep . ssl, or with the ssl part
   in front,  ssl . sep . base . query. *)

\* strings.Contains
Contains(s, sub) ==
    \E p \in 1..(Len(s) - Len(sub) + 1) : SubSeq(s, p, p + Len(sub) - 1) = sub

\* strings.ToLower
ToLower(s) == [k \in 1..Len(s) |-> IF s[k] \in Uppers THEN FoldMap[s[k]] ELSE s[k]]

SslModeKey == <<"s","s","l","m","o","d","e","=">>
UrlMark == <<":","/","/">>
QueryMark == <<"?">>
AsQuery == <<"?","s","s","l","m","o","d","e","=","d","i","s","a","b","l","e">>
AsParam == <<"&","s","s","l","m","o","d","e","=","d","i","s","a","b","l","e">>
AsKeyValue == <<" ","s","s","l","m","o","d","e","=","d","i","s","a","b","l","e">>

\* mutation: an explicit sslmode is recognized in lower case only
ensurePostgresSSLModeCaseSensitive(dsn) ==
    IF Contains(dsn, SslModeKey) THEN dsn
    ELSE IF Contains(dsn, UrlMark)
         THEN (IF Contains(dsn, QueryMark) THEN dsn \o AsParam ELSE dsn \o AsQuery)
         ELSE dsn \o AsKeyValue

\* mutation: the setting is appended whether or not the DSN has one
ensurePostgresSSLModeAlwaysAppends(dsn) ==
    IF Contains(dsn, UrlMark)
    THEN (IF Contains(dsn, QueryMark) THEN dsn \o AsParam ELSE dsn \o AsQuery)
    ELSE dsn \o AsKeyValue

ensurePostgresSSLMode(dsn) ==
    IF Contains(ToLower(dsn), SslModeKey) THEN dsn
    ELSE IF Contains(dsn, UrlMark)
         THEN (IF Contains(dsn, QueryMark) THEN dsn \o AsParam ELSE dsn \o AsQuery)
         ELSE dsn \o AsKeyValue

UrlBases == {<<"p","o","s","t","g","r","e","s","q","l",":","/","/","u",":","p","@","h",":","5","4","3","2","/","d","b">>,
             <<":","/","/">>}
KeyValueBases == {<<"h","o","s","t","=","h"," ","d","b","n","a","m","e","=","d","b"," ","u","s","e","r","=","u">>,
                  <<"d","b">>,
                  <<>>}
DsnBases == UrlBases \cup KeyValueBases

DsnQueries == {<<>>, <<"?","c","o","n","n","e","c","t","_","t","i","m","e","o","u","t","=","2">>, <<"?">>}

\* with "sslmode=" in some letter case, and near misses without it
SslGiven == {<<"s","s","l","m","o","d","e","=","r","e","q","u","i","r","e">>,
             <<"S","S","L","M","O","D","E","=","v","e","r","i","f","y","-","f","u","l","l">>,
             <<"S","s","l","M","o","d","e","=">>}
SslMissing == {<<>>,
               <<"s","s","l","m","o","d","e">>,
               <<"s","s","l","_","m","o","d","e","=","r","e","q","u","i","r","e">>,
               <<"s","s","l","m","o","d","e"," ","=","r","e","q","u","i","r","e">>}

DsnSeps == {<<>>, <<" ">>, <<"&">>}

DsnShapes ==
    [base : DsnBases, query : DsnQueries, sep : DsnSeps, ssl : SslGiven \cup SslMissing,
     front : BOOLEAN]

DsnOf(sh) ==
    IF sh.front THEN sh.ssl \o sh.sep \o sh.base \o sh.query
    ELSE sh.base \o sh.query \o sh.sep \o sh.ssl

InitDsn ==
    /\ HooksIdle
    /\ GuardIdle
    /\ MoreIdle
    /\ WriterIdle
    /\ RaceIdle
    /\ RunsIdle
    /\ dIn = <<>>
    /\ dShape = <<>>
    /\ dOut = <<>>
    /\ dPc = "input"

\* a DSN reaches the normalization
DsnInput(sh) ==
    /\ dPc = "input"
    /\ dShape' = sh
    /\ dIn' = DsnOf(sh)
    /\ dPc' = "call"
    /\ UNCHANGED dOut
    /\ UNCHANGED <<hookVars, guardVars, writerVars, raceVars, runVars, moreVars>>

\* dsn = ensurePostgresSSLMode(dsn)
DsnNormalize ==
    /\ dPc = "call"
    /\ dOut' = ensurePostgresSSLMode(dIn)
    /\ dPc' = "done"
    /\ UNCHANGED <<dIn, dShape>>
    /\ UNCHANGED <<hookVars, guardVars, writerVars, raceVars, runVars, moreVars>>

NextDsn ==
    \/ dPc = "input" /\ \E sh \in DsnShapes : DsnInput(sh)
    \/ DsnNormalize

SpecDsn == InitDsn /\ [][NextDsn]_vars

---------------------------------------------------------------------------
(* Trace writer: errors of the database driver.  An error is a record from
   which its text is built:  "pq: " . phrase . " " . object . tail. *)

PhraseText(ph) ==
    CASE ph = "duplicate"  -> <<"d","u","p","l","i","c","a","t","e"," ","k","e","y"," ","v","a","l","u","e"," ","v","i","o","l","a","t","e","s"," ","u","n","i","q","u","e"," ","c","o","n","s","t","r","a","i","n","t">>
      [] ph = "relation"   -> <<"r","e","l","a","t","i","o","n">>
      [] ph = "permission" -> <<"p","e","r","m","i","s","s","i","o","n"," ","d","e","n","i","e","d"," ","f","o","r">>

ObjectText(ob) ==
    CASE ob = "typname_index" -> <<"\"","p","g","_","t","y","p","e","_","t","y","p","n","a","m","e","_","n","s","p","_","i","n","d","e","x","\"">>
      [] ob = "oid_index"     -> <<"\"","p","g","_","t","y","p","e","_","o","i","d","_","i","n","d","e","x","\"">>
      [] ob = "traces_pkey"   -> <<"\"","t","r","a","c","e","s","_","p","k","e","y","\"">>
      [] ob = "tool_events"   -> <<"\"","t","o","o","l","_","e","v","e","n","t","s","\"">>
      [] ob = "schema"        -> <<"s","c","h","e","m","a"," ","p","u","b","l","i","c">>

TailText(tl) ==
    CASE tl = "none"    -> <<>>
      [] tl = "exists"  -> <<" ","a","l","r","e","a","d","y"," ","e","x","i","s","t","s">>
      [] tl = "exist"   -> <<" ","d","o","e","s"," ","n","o","t"," ","e","x","i","s","t">>
      [] tl = "already" -> <<" ","a","l","r","e","a","d","y"," ","t","h","e","r","e">>

\* err.Error()
ErrorText(err) ==
    LET text == <<"p","q",":"," ">> \o PhraseText(err.phrase) \o <<" ">> \o ObjectText(err.object)
                \o TailText(err.tail)
    IN  IF err.upper THEN UpperText(text) ELSE text

TypnameIndex == <<"p","g","_","t","y","p","e","_","t","y","p","n","a","m","e","_","n","s","p","_","i","n","d","e","x">>
DuplicateKey == <<"d","u","p","l","i","c","a","t","e"," ","k","e","y"," ","v","a","l","u","e"," ","v","i","o","l","a","t","e","s"," ","u","n","i","q","u","e"," ","c","o","n","s","t","r","a","i","n","t">>
PgType == <<"p","g","_","t","y","p","e">>
AlreadyExists == <<"a","l","r","e","a","d","y"," ","e","x","i","s","t","s">>

\* mutation: only the catalog's index name is taken for a race
isSchemaRaceErrorIndexOnly(err) ==
    IF err = ErrNil THEN FALSE
    ELSE LET msg == ToLower(ErrorText(err))
         IN  Contains(msg, TypnameIndex)

\* mutation: the signatures are looked for in the text as it is
isSchemaRaceErrorCaseSensitive(err) ==
    IF err = ErrNil THEN FALSE
    ELSE LET msg == ErrorText(err)
         IN  \/ Contains(msg, TypnameIndex)
             \/ (Contains(msg, DuplicateKey) /\ Contains(msg, PgType))
             \/ Contains(msg, AlreadyExists)

isSchemaRaceError(err) ==
    IF err = ErrNil THEN FALSE
    ELSE LET msg == ToLower(ErrorText(err))
         IN  \/ Contains(msg, TypnameIndex)
             \/ (Contains(msg, DuplicateKey) /\ Contains(msg, PgType))
             \/ Contains(msg, AlreadyExists)

\* the errors of TestIsSchemaRaceError
ErrDupPgType == [phrase |-> "duplicate", object |-> "typname_index", tail |-> "none", upper |-> FALSE]
ErrRelationExists == [phrase |-> "relation", object |-> "tool_events", tail |-> "exists", upper |-> FALSE]
ErrPermission == [phrase |-> "permission", object |-> "schema", tail |-> "none", upper |-> FALSE]

\* errors of every build, and the nil error
ErrorShapes ==
    [phrase : {"duplicate", "relation", "permission"},
     object : {"typname_index", "oid_index", "traces_pkey", "tool_events", "schema"},
     tail : {"none", "exists", "exist", "already"},
     upper : BOOLEAN]

InitRace ==
    /\ HooksIdle
    /\ GuardIdle
    /\ MoreIdle
    /\ DsnIdle
    /\ WriterIdle
    /\ RunsIdle
    /\ rErr = ErrNil
    /\ rRes = FALSE
    /\ rPc = "input"

\* an error reaches the classification
RaceInput(err) ==
    /\ rPc = "input"
    /\ rErr' = err
    /\ rPc' = "call"
    /\ UNCHANGED rRes
    /\ UNCHANGED <<hookVars, guardVars, dsnVars, writerVars, runVars, moreVars>>

\* isSchemaRaceError(err)
RaceClassify ==
    /\ rPc = "call"
    /\ rRes' = isSchemaRaceError(rErr)
    /\ rPc' = "done"
    /\ UNCHANGED rErr
    /\ UNCHANGED <<hookVars, guardVars, dsnVars, writerVars, runVars, moreVars>>

NextRace ==
    \/ rPc = "input" /\ \E err \in ErrorShapes \cup {ErrNil} : RaceInput(err)
    \/ RaceClassify

SpecRace == InitRace /\ [][NextRace]_vars

\* what sql.Open and PingContext may return
ConnErrors == {ErrNil, ErrPermission}

---------------------------------------------------------------------------
(* Trace writer: GlobalTraceWriter, newTraceWriterFromEnv, ensureSchema *)

\* the objects that the statements of ensureSchema create, in order
Stmts ==
    <<"traces", "tool_events", "idx_tool_events_task_id", "idx_tool_events_started_at",
      "idx_tool_events_persona", "run_events", "idx_run_events_task_id",
      "idx_run_events_created_at">>

MaxAttempts == 3

Tables == {"traces", "tool_events", "run_events"}

\* the error of a statement that loses a race: creating a table collides on
\* the catalog's type index, creating an index on the relation's name
RaceErrorOf(k) == IF Stmts[k] \in Tables THEN ErrDupPgType ELSE ErrRelationExists

\* what Exec may return for statement k
ExecErrors(k) == {ErrNil, RaceErrorOf(k), ErrPermission}

MaxCalls == 3
MaxEnv == 1
MaxRaces == 3

DsnUrl == <<"p","o","s","t","g","r","e","s","q","l",":","/","/","u",":","p","@","h",":","5","4","3","2","/","d","b">>
EnvValues == {<<>>, <<" ", "\t">>, <<" ">> \o DsnUrl}

\* mutation: every writer counts as enabled
EnabledAlways(w) == TRUE

\* TraceWriter.Enabled
Enabled(w) == w # NilWriter /\ w.enabled /\ w.db # "nil"

\* os.Setenv somewhere in the process.  The variable is read once, at the
\* start of newTraceWriterFromEnv: a change while the function is past that
\* point has the effect of the same change made once it returned.
SetEnv(p, v) ==
    /\ nenv < MaxEnv
    /\ ini[p].pc \in {"idle", "env", "done"}
    /\ v # env[p]
    /\ env' = [env EXCEPT ![p] = v]
    /\ nenv' = nenv + 1
    /\ UNCHANGED <<once, globalWriter, pool, ini, gw, catalog, ninit, ncalls>>
    /\ UNCHANGED <<hookVars, guardVars, dsnVars, raceVars, runVars, moreVars>>

\* a goroutine calls GlobalTraceWriter()
GlobalTraceWriter(t) ==
    /\ gw[t].pc \in {"idle", "done"}
    /\ ncalls < MaxCalls
    /\ ncalls' = ncalls + 1
    /\ gw' = [gw EXCEPT ![t] = [pc |-> "once", ret |-> NilWriter]]
    /\ UNCHANGED <<env, once, globalWriter, pool, ini, catalog, ninit, nenv>>
    /\ UNCHANGED <<hookVars, guardVars, dsnVars, raceVars, runVars, moreVars>>

\* mutation: the function is run again by a call that finds it completed
OnceFiresAgain(p) == once[p] # "running"

\* sync.Once: the function runs for the first caller only
OnceFires(p) == once[p] = "new"

\* once.Do(func): the first caller runs the function, a caller that finds it
\* running waits, a caller that finds it done goes on
OnceDo(t) ==
    LET p == ProcOf(t) IN
    /\ gw[t].pc = "once"
    /\ once[p] # "running" \/ OnceFires(p)
    /\ IF OnceFires(p)
       THEN /\ once' = [once EXCEPT ![p] = "running"]
            /\ ninit' = [ninit EXCEPT ![p] = @ + 1]
            /\ ini' = [ini EXCEPT ![p] = [IniFrame0 EXCEPT !.pc = "env", !.owner = t]]
            /\ gw' = [gw EXCEPT ![t].pc = "init"]
       ELSE /\ gw' = [gw EXCEPT ![t].pc = "ret"]
            /\ UNCHANGED <<once, ninit, ini>>
    /\ UNCHANGED <<env, globalWriter, pool, catalog, nenv, ncalls>>
    /\ UNCHANGED <<hookVars, guardVars, dsnVars, raceVars, runVars, moreVars>>

\* return globalWriter
GlobalTraceWriterReturn(t) ==
    /\ gw[t].pc = "ret"
    /\ gw' = [gw EXCEPT ![t] = [pc |-> "done", ret |-> globalWriter[ProcOf(t)]]]
    /\ UNCHANGED <<env, once, globalWriter, pool, ini, catalog, ninit, nenv, ncalls>>
    /\ UNCHANGED <<hookVars, guardVars, dsnVars, raceVars, runVars, moreVars>>

\* a step of newTraceWriterFromEnv that changes its frame, and pool as given
InitStep(p, f, db) ==
    /\ ini' = [ini EXCEPT ![p] = f]
    /\ pool' = [pool EXCEPT ![p] = db]
    /\ UNCHANGED <<env, once, globalWriter, gw, catalog, ninit, nenv, ncalls>>
    /\ UNCHANGED <<hookVars, guardVars, dsnVars, raceVars, runVars, moreVars>>

\* return &TraceWriter{enabled: false}
GiveUp(f, step) ==
    [f EXCEPT !.pc = "end", !.failed = step, !.w = DisabledWriter(1)]

\* dsn := strings.TrimSpace(os.Getenv(...)); dsn = ensurePostgresSSLMode(dsn)
InitEnv(p) ==
    LET f == ini[p]
        dsn == TrimSpace(env[p])
    IN  /\ f.pc = "env"
        /\ InitStep(p, IF dsn = <<>> THEN GiveUp(f, "dsn")
                       ELSE [f EXCEPT !.pc = "open", !.dsn = ensurePostgresSSLMode(dsn)],
                    pool[p])

\* db, err := sql.Open("postgres", dsn)
InitOpen(p, err) ==
    LET f == ini[p] IN
    /\ f.pc = "open"
    /\ LET g == [f EXCEPT !.trail = Append(f.trail, <<"open", err>>)]
       IN  IF err # ErrNil THEN InitStep(p, GiveUp(g, "open"), pool[p])
           ELSE InitStep(p, [g EXCEPT !.pc = "ping"], "open")

\* mutation: a failed ping leaves the pool open
InitPingLeaksPool(p, err) ==
    LET f == ini[p] IN
    /\ f.pc = "ping"
    /\ LET g == [f EXCEPT !.trail = Append(f.trail, <<"ping", err>>)]
       IN  IF err # ErrNil THEN InitStep(p, GiveUp(g, "ping"), pool[p])
           ELSE InitStep(p, [g EXCEPT !.pc = "schema",
                                       !.w = [id |-> 1, enabled |-> TRUE, db |-> "db"]],
                         pool[p])

\* db.PingContext(pingCtx); w := &TraceWriter{enabled: true, db: db}
InitPing(p, err) ==
    LET f == ini[p] IN
    /\ f.pc = "ping"
    /\ LET g == [f EXCEPT !.trail = Append(f.trail, <<"ping", err>>)]
       IN  IF err # ErrNil THEN InitStep(p, GiveUp(g, "ping"), "closed")
           ELSE InitStep(p, [g EXCEPT !.pc = "schema",
                                       !.w = [id |-> 1, enabled |-> TRUE, db |-> "db"]],
                         pool[p])

\* w.ensureSchema() is entered
SchemaEntry(p) ==
    LET f == ini[p] IN
    /\ f.pc = "schema"
    /\ InitStep(p, IF ~Enabled(f.w) THEN [f EXCEPT !.pc = "check", !.err = ErrNil]
                   ELSE [f EXCEPT !.pc = "exec", !.k = 1, !.attempt = 0],
                pool[p])

\* the outer loop goes to the next statement, or ensureSchema returns nil
NextStmt(f) ==
    IF f.k = Len(Stmts) THEN [f EXCEPT !.pc = "check", !.err = ErrNil]
    ELSE [f EXCEPT !.k = f.k + 1, !.attempt = 0]

\* mutation: a statement whose attempts are used up makes ensureSchema fail
AfterAttemptsFail(f) == [f EXCEPT !.pc = "check"]

\* after the inner loop, err being a schema-race error: the condition
\* err != nil && !isSchemaRaceError(err) is false
AfterAttempts(f) == NextStmt(f)

\* mutation: any error is retried
AfterExecRetryAll(f, err) ==
    LET g == [f EXCEPT !.err = err,
                       !.log = Append(f.log, [stmt |-> f.k, attempt |-> f.attempt, err |-> err])]
    IN  IF err = ErrNil THEN NextStmt(g)
        ELSE IF f.attempt + 1 < MaxAttempts THEN [g EXCEPT !.attempt = f.attempt + 1]
        ELSE AfterAttempts(g)

\* the frame after w.db.Exec(stmt) returned err at this attempt
AfterExec(f, err) ==
    LET g == [f EXCEPT !.err = err,
                       !.log = Append(f.log, [stmt |-> f.k, attempt |-> f.attempt, err |-> err])]
    IN  IF err = ErrNil THEN NextStmt(g)
        ELSE IF ~isSchemaRaceError(err) THEN [g EXCEPT !.pc = "check"]
        ELSE IF f.attempt + 1 < MaxAttempts THEN [g EXCEPT !.attempt = f.attempt + 1]
        ELSE AfterAttempts(g)

\* the failed attempts so far; while the loops go on, each was a race
RacesIn(log) == Len(SelectSeq(log, LAMBDA e : e.err # ErrNil))

\* _, err = w.db.Exec(stmt), the database answering as it likes
SchemaExec(p, err) ==
    LET f == ini[p] IN
    /\ f.pc = "exec"
    /\ err \in ExecErrors(f.k)
    /\ isSchemaRaceError(err) => RacesIn(f.log) < MaxRaces
    /\ InitStep(p, AfterExec(f, err), pool[p])

\* if err := w.ensureSchema(); err != nil { db.Close(); return disabled }
InitCheck(p) ==
    LET f == ini[p] IN
    /\ f.pc = "check"
    /\ LET g == [f EXCEPT !.trail = Append(f.trail, <<"schema", f.err>>)]
       IN  IF f.err # ErrNil THEN InitStep(p, GiveUp(g, "schema"), "closed")
           ELSE InitStep(p, [g EXCEPT !.pc = "end"], pool[p])

\* globalWriter = newTraceWriterFromEnv(); once.Do returns
InitEnd(p) ==
    LET f == ini[p] IN
    /\ f.pc = "end"
    /\ globalWriter' = [globalWriter EXCEPT ![p] = [f.w EXCEPT !.id = ninit[p]]]
    /\ once' = [once EXCEPT ![p] = "done"]
    /\ ini' = [ini EXCEPT ![p] = [IniFrame0 EXCEPT !.pc = "done", !.owner = f.owner,
                                                   !.failed = f.failed, !.w = f.w,
                                                   !.trail = f.trail]]
    /\ gw' = [gw EXCEPT ![f.owner].pc = "ret"]
    /\ UNCHANGED <<env, pool, catalog, ninit, nenv, ncalls>>
    /\ UNCHANGED <<hookVars, guardVars, dsnVars, raceVars, runVars, moreVars>>

\* one process, two goroutines, a database that answers as it likes
InitP == {"p1"}
InitG == {"p1.a", "p1.b"}

InitWriter ==
    /\ HooksIdle
    /\ GuardIdle
    /\ MoreIdle
    /\ DsnIdle
    /\ RaceIdle
    /\ RunsIdle
    /\ env \in [Procs -> EnvValues]
    /\ env["p2"] = <<>>
    /\ once = [p \in Procs |-> "new"]
    /\ globalWriter = [p \in Procs |-> NilWriter]
    /\ pool = [p \in Procs |-> "none"]
    /\ ini = [p \in Procs |-> IniFrame0]
    /\ gw = [t \in Goroutines |-> GwFrame0]
    /\ catalog = {}
    /\ ninit = [p \in Procs |-> 0]
    /\ nenv = 0
    /\ ncalls = 0

NextWriter ==
    \/ \E p \in InitP, v \in EnvValues : SetEnv(p, v)
    \/ \E t \in InitG : GlobalTraceWriter(t)
    \/ \E t \in InitG : OnceDo(t)
    \/ \E t \in InitG : GlobalTraceWriterReturn(t)
    \/ \E p \in InitP : InitEnv(p)
    \/ \E p \in InitP, err \in ConnErrors : InitOpen(p, err)
    \/ \E p \in InitP, err \in ConnErrors : InitPing(p, err)
    \/ \E p \in InitP : SchemaEntry(p)
    \/ \E p \in InitP : ini[p].pc = "exec" /\ \E err \in ExecErrors(ini[p].k) : SchemaExec(p, err)
    \/ \E p \in InitP : InitCheck(p)
    \/ \E p \in InitP : InitEnd(p)

SpecWriter == InitWriter /\ [][NextWriter]_vars

---------------------------------------------------------------------------
(* Two processes provisioning one fresh database.  A statement is CREATE ...
   IF NOT EXISTS: the database looks for the object, and creates it when it
   did not find it; when another session created it in between, the
   statement fails with the race error of its kind. *)

\* w.db.Exec(stmt) is sent: the database looks for the object
ExecBegin(p) ==
    LET f == ini[p] IN
    /\ f.pc = "exec"
    /\ ini' = [ini EXCEPT ![p] = [f EXCEPT !.pc = "execing", !.seen = Stmts[f.k] \in catalog]]
    /\ UNCHANGED <<env, once, globalWriter, pool, gw, catalog, ninit, nenv, ncalls>>
    /\ UNCHANGED <<hookVars, guardVars, dsnVars, raceVars, runVars, moreVars>>

\* what the database answers to the statement in flight
ExecOutcome(f) ==
    IF f.seen \/ Stmts[f.k] \notin catalog THEN ErrNil ELSE RaceErrorOf(f.k)

\* w.db.Exec(stmt) returns
ExecEnd(p) ==
    LET f == ini[p] IN
    /\ f.pc = "execing"
    /\ ini' = [ini EXCEPT ![p] = AfterExec([f EXCEPT !.pc = "exec"], ExecOutcome(f))]
    /\ catalog' = catalog \cup {Stmts[f.k]}
    /\ UNCHANGED <<env, once, globalWriter, pool, gw, ninit, nenv, ncalls>>
    /\ UNCHANGED <<hookVars, guardVars, dsnVars, raceVars, runVars, moreVars>>

ProvisionG == {"p1.a", "p2.a"}

InitProvision ==
    /\ HooksIdle
    /\ GuardIdle
    /\ MoreIdle
    /\ DsnIdle
    /\ RaceIdle
    /\ RunsIdle
    /\ env = [p \in Procs |-> DsnUrl]
    /\ once = [p \in Procs |-> "new"]
    /\ globalWriter = [p \in Procs |-> NilWriter]
    /\ pool = [p \in Procs |-> "none"]
    /\ ini = [p \in Procs |-> IniFrame0]
    /\ gw = [t \in Goroutines |-> GwFrame0]
    /\ catalog = {}
    /\ ninit = [p \in Procs |-> 0]
    /\ nenv = 0
    /\ ncalls = 0

NextProvision ==
    \/ \E t \in ProvisionG : GlobalTraceWriter(t)
    \/ \E t \in ProvisionG : OnceDo(t)
    \/ \E t \in ProvisionG : GlobalTraceWriterReturn(t)
    \/ \E p \in Procs : InitEnv(p)
    \/ \E p \in Procs : InitOpen(p, ErrNil)
    \/ \E p \in Procs : InitPing(p, ErrNil)
    \/ \E p \in Procs : SchemaEntry(p)
    \/ \E p \in Procs : ExecBegin(p)
    \/ \E p \in Procs : ExecEnd(p)
    \/ \E p \in Procs : InitCheck(p)
    \/ \E p \in Procs : InitEnd(p)

SpecProvision == InitProvision /\ [][NextProvision]_vars

---------------------------------------------------------------------------
(* Trace writer: recording into a Run.  The database accepts or refuses each
   insert as it likes. *)

MaxRec == 3

EnabledWriter == [id |-> 1, enabled |-> TRUE, db |-> "db"]
Writers == {EnabledWriter, DisabledWriter(1), NilWriter}

Persona == "assistant"

\* ToolEvent values: a successful call and a failed one
EvRead ==
    [Tool |-> "read_file", Args |-> ArgsQuery, Iteration |-> 1, DurationMS |-> 5,
     IsError |-> FALSE, ErrorMsg |-> <<>>]
EvExec ==
    [Tool |-> "exec", Args |-> ArgsNil, Iteration |-> 2, DurationMS |-> 7,
     IsError |-> TRUE, ErrorMsg |-> <<"b","o","o","m">>]
Events == {EvRead, EvExec}

ResultLens == {12}

InsertErrors == {ErrNil, ErrPermission}

\* a column that holds NULL or a text
Null == [null |-> TRUE, text |-> <<>>]
NotNull(s) == [null |-> FALSE, text |-> s]

\* mutation: only the empty text is stored as NULL
nullIfEmptyUntrimmed(s) == IF s = <<>> THEN Null ELSE NotNull(s)

\* nullIfEmpty
nullIfEmpty(s) == IF TrimSpace(s) = <<>> THEN Null ELSE NotNull(s)

\* the row that RecordToolEvent inserts
ToolRow(run, ev, resultLen) ==
    [task_id |-> run, persona |-> Persona, tool |-> ev.Tool, args_json |-> Marshal(ev.Args),
     iteration |-> ev.Iteration, status |-> IF ev.IsError THEN "error" ELSE "done",
     duration_ms |-> ev.DurationMS, result_len |-> resultLen,
     error |-> nullIfEmpty(ev.ErrorMsg)]

\* a goroutine calls w.RecordToolEvent(run, ev, resultLen)
RecordToolEvent(t, run, ev, resultLen) ==
    /\ rf[t].pc \in {"idle", "done"}
    /\ nrec < MaxRec
    /\ nrec' = nrec + 1
    /\ IF ~Enabled(tw) \/ run = NilRun
       THEN /\ rf' = [rf EXCEPT ![t] = [RecFrame0 EXCEPT !.pc = "done", !.op = "skipped",
                                                         !.run = run, !.ev = ev,
                                                         !.resultLen = resultLen]]
            /\ UNCHANGED recCalls
       ELSE /\ rf' = [rf EXCEPT ![t] = [RecFrame0 EXCEPT !.pc = "insert",
                                                         !.op = "RecordToolEvent", !.run = run,
                                                         !.ev = ev, !.resultLen = resultLen]]
            /\ recCalls' = [recCalls EXCEPT ![run] = @ + 1]
    /\ UNCHANGED <<tw, runs, toolRows, recFailed>>
    /\ UNCHANGED <<hookVars, guardVars, dsnVars, writerVars, raceVars, moreVars>>

\* mutation: the event is appended whether the insert succeeded or not
AfterInsertAppendsAnyway(f, err) == [f EXCEPT !.pc = "lock"]

\* if err != nil { log; return }; run.appendToolEvent(ev)
AfterInsert(f, err) == IF err # ErrNil THEN [f EXCEPT !.pc = "done"] ELSE [f EXCEPT !.pc = "lock"]

\* mutation: a refused insert switches the writer off
RecordInsertDisablesWriter(t, err) ==
    LET f == rf[t] IN
    /\ f.pc = "insert"
    /\ rf' = [rf EXCEPT ![t] = AfterInsert(f, err)]
    /\ IF err = ErrNil
       THEN /\ toolRows' = Append(toolRows, ToolRow(f.run, f.ev, f.resultLen))
            /\ UNCHANGED <<recFailed, tw>>
       ELSE /\ recFailed' = [recFailed EXCEPT ![f.run] = @ + 1]
            /\ tw' = [tw EXCEPT !.enabled = FALSE]
            /\ UNCHANGED toolRows
    /\ UNCHANGED <<runs, recCalls, nrec>>
    /\ UNCHANGED <<hookVars, guardVars, dsnVars, writerVars, raceVars, moreVars>>

\* _, err := w.db.Exec(INSERT INTO tool_events ...)
RecordInsert(t, err) ==
    LET f == rf[t] IN
    /\ f.pc = "insert"
    /\ rf' = [rf EXCEPT ![t] = AfterInsert(f, err)]
    /\ IF err = ErrNil
       THEN /\ toolRows' = Append(toolRows, ToolRow(f.run, f.ev, f.resultLen))
            /\ UNCHANGED recFailed
       ELSE /\ recFailed' = [recFailed EXCEPT ![f.run] = @ + 1]
            /\ UNCHANGED toolRows
    /\ UNCHANGED <<tw, runs, recCalls, nrec>>
    /\ UNCHANGED <<hookVars, guardVars, dsnVars, writerVars, raceVars, moreVars>>

\* mutation: the lock is passed without being taken
MutexFreeAlways(m, t) == TRUE

\* sync.Mutex: Lock returns only when nobody holds the mutex
MutexFree(m, t) == m = None

\* r.mu.Lock() in appendToolEvent
AppendLock(t) ==
    LET f == rf[t] IN
    /\ f.pc = "lock"
    /\ MutexFree(runs[f.run].mu, t)
    /\ runs' = [runs EXCEPT ![f.run].mu = t]
    /\ rf' = [rf EXCEPT ![t].pc = "read"]
    /\ UNCHANGED <<tw, toolRows, recCalls, recFailed, nrec>>
    /\ UNCHANGED <<hookVars, guardVars, dsnVars, writerVars, raceVars, moreVars>>

\* append(r.toolEvents, ev) reads the slice, and r.errorCount++ the counter
AppendRead(t) ==
    LET f == rf[t] IN
    /\ f.pc = "read"
    /\ rf' = [rf EXCEPT ![t] = [f EXCEPT !.pc = "append", !.seen = runs[f.run].toolEvents,
                                         !.seenErrors = runs[f.run].errorCount]]
    /\ UNCHANGED <<tw, runs, toolRows, recCalls, recFailed, nrec>>
    /\ UNCHANGED <<hookVars, guardVars, dsnVars, writerVars, raceVars, moreVars>>

\* mutation: the event is put in front of the list
PrependEvent(list, ev) == <<ev>> \o list

\* mutation: the event is appended twice
AppendEventTwice(list, ev) == list \o <<ev, ev>>

\* append(r.toolEvents, ev)
AppendEvent(list, ev) == Append(list, ev)

\* mutation: the counter is raised for every event
appendToolEventCountsAll(t) ==
    LET f == rf[t] IN
    /\ f.pc = "append"
    /\ runs' = [runs EXCEPT ![f.run] =
                  [toolEvents |-> AppendEvent(f.seen, f.ev),
                   errorCount |-> f.seenErrors + 1,
                   mu |-> None]]
    /\ rf' = [rf EXCEPT ![t] = [f EXCEPT !.pc = "done", !.seen = <<>>, !.seenErrors = 0]]
    /\ UNCHANGED <<tw, toolRows, recCalls, recFailed, nrec>>
    /\ UNCHANGED <<hookVars, guardVars, dsnVars, writerVars, raceVars, moreVars>>

\* r.toolEvents = append(r.toolEvents, ev); if ev.IsError { r.errorCount++ }
\* store what they computed; the deferred r.mu.Unlock()
appendToolEvent(t) ==
    LET f == rf[t] IN
    /\ f.pc = "append"
    /\ runs' = [runs EXCEPT ![f.run] =
                  [toolEvents |-> AppendEvent(f.seen, f.ev),
                   errorCount |-> IF f.ev.IsError THEN f.seenErrors + 1 ELSE @.errorCount,
                   mu |-> None]]
    /\ rf' = [rf EXCEPT ![t] = [f EXCEPT !.pc = "done", !.seen = <<>>, !.seenErrors = 0]]
    /\ UNCHANGED <<tw, toolRows, recCalls, recFailed, nrec>>
    /\ UNCHANGED <<hookVars, guardVars, dsnVars, writerVars, raceVars, moreVars>>

InitRuns ==
    /\ HooksIdle
    /\ GuardIdle
    /\ MoreIdle
    /\ DsnIdle
    /\ WriterIdle
    /\ RaceIdle
    /\ tw \in Writers
    /\ runs = [r \in RunIds |-> Run0]
    /\ toolRows = <<>>
    /\ rf = [t \in Recorders |-> RecFrame0]
    /\ recCalls = [r \in RunIds |-> 0]
    /\ recFailed = [r \in RunIds |-> 0]
    /\ nrec = 0

NextRuns ==
    \/ \E t \in Recorders, run \in RunIds \cup {NilRun}, ev \in Events, n \in ResultLens :
          RecordToolEvent(t, run, ev, n)
    \/ \E t \in Recorders, err \in InsertErrors : RecordInsert(t, err)
    \/ \E t \in Recorders : AppendLock(t)
    \/ \E t \in Recorders : AppendRead(t)
    \/ \E t \in Recorders : appendToolEvent(t)

SpecRuns == InitRuns /\ [][NextRuns]_vars

---------------------------------------------------------------------------
(* Trace writer: finishing a Run, milestone rows, and a call of
   ensureSchema on the writer the runtime holds.  Goroutines record tool
   events while others finish Runs; the clock and the database answer as
   they like. *)

\* the fields of a Run that are set when it is created
RunFields(run) ==
    [Gateway |-> "telegram", Sender |-> IF run = "task1" THEN "alice" ELSE "bob",
     Subject |-> "hello", StartedAt |-> 2]

\* the exit code given and what time.Now() returns, in seconds: a failed
\* run read on a clock that fell behind the Runs' start, a clean one after it
Finishes == {[exitCode |-> 1, now |-> 1], [exitCode |-> 0, now |-> 3]}

\* ToolEvent values whose error flag and error text disagree
EvQuiet ==
    [Tool |-> "exec", Args |-> ArgsNil, Iteration |-> 0, DurationMS |-> 0,
     IsError |-> TRUE, ErrorMsg |-> <<" ", "\t">>]
EvWarn ==
    [Tool |-> "read_file", Args |-> ArgsNil, Iteration |-> 3, DurationMS |-> 5,
     IsError |-> FALSE, ErrorMsg |-> <<"s","l","o","w">>]
TraceEvents == Events \cup {EvQuiet, EvWarn}

ArgsEmpty == [nil |-> FALSE, kv |-> <<>>]
Payloads == {ArgsNil, ArgsEmpty}
EventTypes == {<<>>, <<" ">>, <<"s","t","a","r","t">>}
Statuses == {"", "failed"}

\* json.Marshal of one ToolEvent, as the pieces of the text in order: args,
\* duration_ms, error_msg and extra are left out when empty (omitempty)
MarshalEvent(ev) ==
    <<"{", "\"tool\":", "\"", ev.Tool, "\"">>
    \o (IF ev.Args.nil \/ ev.Args.kv = <<>> THEN <<>> ELSE <<",", "\"args\":">> \o Marshal(ev.Args))
    \o <<",", "\"iteration\":", ToString(ev.Iteration)>>
    \o (IF ev.DurationMS = 0 THEN <<>> ELSE <<",", "\"duration_ms\":", ToString(ev.DurationMS)>>)
    \o <<",", "\"is_error\":", IF ev.IsError THEN "true" ELSE "false">>
    \o (IF ev.ErrorMsg = <<>> THEN <<>> ELSE <<",", "\"error_msg\":">> \o MarshalString(ev.ErrorMsg))
    \o <<"}">>

RECURSIVE MarshalEventList(_)
MarshalEventList(evs) ==
    IF evs = <<>> THEN <<>>
    ELSE MarshalEvent(Head(evs)) \o (IF Len(evs) > 1 THEN <<",">> ELSE <<>>)
         \o MarshalEventList(Tail(evs))

\* json.Marshal(toolEvents) of the slice that snapshot made
MarshalEvents(evs) == <<"[">> \o MarshalEventList(evs) \o <<"]">>

\* durationMS := int((endedAt - run.StartedAt) * 1000); if < 0 { = 0 }
DurationMS(endedAt, startedAt) ==
    LET d == (endedAt - startedAt) * 1000 IN IF d < 0 THEN 0 ELSE d

\* the row that FinishRun sends
TraceRow(f) ==
    [task_id |-> f.run, gateway |-> RunFields(f.run).Gateway, sender |-> RunFields(f.run).Sender,
     preview |-> RunFields(f.run).Subject, exit_code |-> f.exitCode,
     started_at |-> RunFields(f.run).StartedAt, ended_at |-> f.endedAt,
     duration_ms |-> f.durationMS, tool_count |-> Len(f.toolEvents),
     error_count |-> f.errorCount, tools_json |-> MarshalEvents(f.toolEvents)]

\* mutation: ON CONFLICT (task_id) DO NOTHING
UpsertKeepsFirst(table, row) ==
    IF \E i \in 1..Len(table) : table[i].task_id = row.task_id THEN table
    ELSE Append(table, row)

\* INSERT INTO traces ... ON CONFLICT (task_id) DO UPDATE SET every other
\* column = EXCLUDED's
Upsert(table, row) ==
    IF \E i \in 1..Len(table) : table[i].task_id = row.task_id
    THEN [i \in 1..Len(table) |->
            IF table[i].task_id = row.task_id
            THEN [table[i] EXCEPT !.gateway = row.gateway, !.sender = row.sender,
                                  !.preview = row.preview, !.exit_code = row.exit_code,
                                  !.started_at = row.started_at, !.ended_at = row.ended_at,
                                  !.duration_ms = row.duration_ms,
                                  !.tool_count = row.tool_count,
                                  !.error_count = row.error_count,
                                  !.tools_json = row.tools_json]
            ELSE table[i]]
    ELSE Append(table, row)

\* a call that returns at its entry check: no statement was sent
Skipped(op, run) == [FinFrame0 EXCEPT !.pc = "done", !.op = op, !.run = run]

\* a call that returns after its statement came back with err
Came(op, run, err) ==
    [FinFrame0 EXCEPT !.pc = "done", !.op = op, !.run = run, !.sent = TRUE, !.err = err]

\* a goroutine calls w.FinishRun(run, exitCode); time.Now() gives now
FinishRun(t, run, exitCode, now) ==
    /\ ff[t].pc \in {"idle", "done"}
    /\ nrec < MaxRec
    /\ nrec' = nrec + 1
    /\ ff' = [ff EXCEPT ![t] =
                IF ~Enabled(tw) \/ run = NilRun THEN Skipped("FinishRun", run)
                ELSE [FinFrame0 EXCEPT !.pc = "lock", !.op = "FinishRun", !.run = run,
                                       !.exitCode = exitCode, !.endedAt = now,
                                       !.durationMS =
                                           DurationMS(now, RunFields(run).StartedAt)]]
    /\ UNCHANGED <<traces, runEvents>>
    /\ UNCHANGED <<tw, runs, toolRows, rf, recCalls, recFailed>>
    /\ UNCHANGED <<hookVars, guardVars, dsnVars, writerVars, raceVars, ctxVars, argVars, nestVars>>

\* r.mu.Lock() in snapshot
SnapshotLock(t) ==
    LET f == ff[t] IN
    /\ f.pc = "lock"
    /\ MutexFree(runs[f.run].mu, t)
    /\ runs' = [runs EXCEPT ![f.run].mu = t]
    /\ ff' = [ff EXCEPT ![t].pc = "copy"]
    /\ UNCHANGED <<traces, runEvents>>
    /\ UNCHANGED <<tw, toolRows, rf, recCalls, recFailed, nrec>>
    /\ UNCHANGED <<hookVars, guardVars, dsnVars, writerVars, raceVars, ctxVars, argVars, nestVars>>

\* mutation: the error count is read again when the row is built
RowOfLive(f) == TraceRow([f EXCEPT !.errorCount = runs[f.run].errorCount])

\* the row built from the copy that snapshot returned
RowOf(f) == TraceRow(f)

\* cp := make(...); copy(cp, r.toolEvents)
SnapshotCopy(t) ==
    LET f == ff[t] IN
    /\ f.pc = "copy"
    /\ ff' = [ff EXCEPT ![t] = [f EXCEPT !.pc = "count", !.toolEvents = runs[f.run].toolEvents]]
    /\ UNCHANGED <<traces, runEvents>>
    /\ UNCHANGED <<tw, runs, toolRows, rf, recCalls, recFailed, nrec>>
    /\ UNCHANGED <<hookVars, guardVars, dsnVars, writerVars, raceVars, ctxVars, argVars, nestVars>>

\* return cp, r.errorCount; the deferred r.mu.Unlock()
snapshot(t) ==
    LET f == ff[t] IN
    /\ f.pc = "count"
    /\ ff' = [ff EXCEPT ![t] = [f EXCEPT !.pc = "upsert",
                                         !.errorCount = runs[f.run].errorCount]]
    /\ runs' = [runs EXCEPT ![f.run].mu = None]
    /\ UNCHANGED <<traces, runEvents>>
    /\ UNCHANGED <<tw, toolRows, rf, recCalls, recFailed, nrec>>
    /\ UNCHANGED <<hookVars, guardVars, dsnVars, writerVars, raceVars, ctxVars, argVars, nestVars>>

\* mutation: a refused upsert is sent again
AfterUpsertRetries(f, err) ==
    IF err = ErrNil THEN Came("FinishRun", f.run, err) ELSE [f EXCEPT !.sent = TRUE, !.err = err]

\* if err != nil { log }; FinishRun returns
AfterUpsert(f, err) == Came("FinishRun", f.run, err)

\* toolsJSON, _ := json.Marshal(toolEvents); _, err := w.db.Exec(INSERT INTO
\* traces ... ON CONFLICT ...); if err != nil { log }
FinishUpsert(t, err) ==
    LET f == ff[t]
        row == RowOf(f)
    IN  /\ f.pc = "upsert"
        /\ ff' = [ff EXCEPT ![t] = AfterUpsert(f, err)]
        /\ traces' = IF err = ErrNil THEN Upsert(traces, row) ELSE traces
        /\ UNCHANGED runEvents
        /\ UNCHANGED <<tw, runs, toolRows, rf, recCalls, recFailed, nrec>>
        /\ UNCHANGED <<hookVars, guardVars, dsnVars, writerVars, raceVars, ctxVars, argVars, nestVars>>

\* the row that RecordContextEvent inserts
ContextRow(run, payload, iteration) ==
    [task_id |-> run, persona |-> Persona, tool |-> "__context__",
     args_json |-> Marshal(payload), iteration |-> iteration, status |-> "done",
     duration_ms |-> 0, result_len |-> 0, error |-> Null]

\* a goroutine calls w.RecordContextEvent(run, payload, iteration); the
\* insert returns err
RecordContextEvent(t, run, payload, iteration, err) ==
    /\ ff[t].pc \in {"idle", "done"}
    /\ nrec < MaxRec
    /\ nrec' = nrec + 1
    /\ IF ~Enabled(tw) \/ run = NilRun \/ payload.nil
       THEN /\ ff' = [ff EXCEPT ![t] = Skipped("RecordContextEvent", run)]
            /\ UNCHANGED toolRows
       ELSE /\ ff' = [ff EXCEPT ![t] = Came("RecordContextEvent", run, err)]
            /\ toolRows' = IF err = ErrNil
                           THEN Append(toolRows, ContextRow(run, payload, iteration))
                           ELSE toolRows
    /\ UNCHANGED <<traces, runEvents>>
    /\ UNCHANGED <<tw, runs, rf, recCalls, recFailed>>
    /\ UNCHANGED <<hookVars, guardVars, dsnVars, writerVars, raceVars, ctxVars, argVars, nestVars>>

\* mutation: the status is stored as it was given
RunEventRowStatusAsGiven(run, eventType, payload, status, durationMS, eventErr) ==
    [task_id |-> run, persona |-> Persona, event_type |-> eventType,
     payload_json |-> Marshal(payload), status |-> status,
     duration_ms |-> durationMS, error |-> nullIfEmpty(eventErr)]

\* the row that RecordRunEvent inserts
RunEventRow(run, eventType, payload, status, durationMS, eventErr) ==
    [task_id |-> run, persona |-> Persona, event_type |-> eventType,
     payload_json |-> Marshal(payload), status |-> IF status = "" THEN "ok" ELSE status,
     duration_ms |-> durationMS, error |-> nullIfEmpty(eventErr)]

\* a goroutine calls w.RecordRunEvent(run, eventType, payload, status,
\* durationMS, eventErr); the insert returns err
RecordRunEvent(t, run, eventType, payload, status, durationMS, eventErr, err) ==
    LET row == RunEventRow(run, eventType, payload, status, durationMS, eventErr) IN
    /\ ff[t].pc \in {"idle", "done"}
    /\ nrec < MaxRec
    /\ nrec' = nrec + 1
    /\ IF ~Enabled(tw) \/ run = NilRun \/ TrimSpace(eventType) = <<>>
       THEN /\ ff' = [ff EXCEPT ![t] = Skipped("RecordRunEvent", run)]
            /\ UNCHANGED runEvents
       ELSE /\ ff' = [ff EXCEPT ![t] = Came("RecordRunEvent", run, err)]
            /\ runEvents' = IF err = ErrNil THEN Append(runEvents, row) ELSE runEvents
    /\ UNCHANGED <<traces, toolRows>>
    /\ UNCHANGED <<tw, runs, rf, recCalls, recFailed>>
    /\ UNCHANGED <<hookVars, guardVars, dsnVars, writerVars, raceVars, ctxVars, argVars, nestVars>>

\* a goroutine calls w.ensureSchema() on the writer the runtime holds
ensureSchema(t) ==
    /\ ff[t].pc \in {"idle", "done"}
    /\ nrec < MaxRec
    /\ nrec' = nrec + 1
    /\ ff' = [ff EXCEPT ![t] =
                IF ~Enabled(tw) THEN Skipped("ensureSchema", NilRun)
                ELSE [FinFrame0 EXCEPT !.pc = "exec", !.op = "ensureSchema", !.sent = TRUE,
                                       !.k = 1]]
    /\ UNCHANGED <<traces, runEvents>>
    /\ UNCHANGED <<tw, runs, toolRows, rf, recCalls, recFailed>>
    /\ UNCHANGED <<hookVars, guardVars, dsnVars, writerVars, raceVars, ctxVars, argVars, nestVars>>

\* _, err = w.db.Exec(stmt) in that call, and what the loops do next
EnsureExec(t, err) ==
    LET f == ff[t]
        g == [AfterExec(f, err) EXCEPT !.log = <<>>]
    IN  /\ f.pc = "exec"
        /\ err \in ExecErrors(f.k)
        /\ ff' = [ff EXCEPT ![t] = IF g.pc = "check"
                                   THEN Came("ensureSchema", NilRun, g.err) ELSE g]
        /\ UNCHANGED <<traces, runEvents>>
        /\ UNCHANGED <<tw, runs, toolRows, rf, recCalls, recFailed, nrec>>
        /\ UNCHANGED <<hookVars, guardVars, dsnVars, writerVars, raceVars, ctxVars, argVars, nestVars>>

InitTrace ==
    /\ HooksIdle
    /\ GuardIdle
    /\ DsnIdle
    /\ WriterIdle
    /\ RaceIdle
    /\ CtxIdle
    /\ ArgIdle
    /\ NestIdle
    /\ FinIdle
    /\ tw \in Writers
    /\ runs = [r \in RunIds |-> Run0]
    /\ toolRows = <<>>
    /\ rf = [t \in Recorders |-> RecFrame0]
    /\ recCalls = [r \in RunIds |-> 0]
    /\ recFailed = [r \in RunIds |-> 0]
    /\ nrec = 0

\* Runs recorded into by two goroutines and finished by a third
NextFinish ==
    \/ \E t \in Recorders, run \in RunIds \cup {NilRun}, ev \in Events, n \in ResultLens :
          RecordToolEvent(t, run, ev, n)
    \/ \E t \in Recorders, err \in InsertErrors : RecordInsert(t, err)
    \/ \E t \in Recorders : AppendLock(t)
    \/ \E t \in Recorders : AppendRead(t)
    \/ \E t \in Recorders : appendToolEvent(t)
    \/ \E t \in Finishers, run \in RunIds \cup {NilRun}, fin \in Finishes :
          FinishRun(t, run, fin.exitCode, fin.now)
    \/ \E t \in Finishers : SnapshotLock(t)
    \/ \E t \in Finishers : SnapshotCopy(t)
    \/ \E t \in Finishers : snapshot(t)
    \/ \E t \in Finishers, err \in InsertErrors : FinishUpsert(t, err)

SpecFinish == InitTrace /\ [][NextFinish]_vars

\* every operation of the writer, one goroutine recording tool events and
\* one writing the rest
ToolRecorders == {"w1"}

NextTrace ==
    \/ \E t \in ToolRecorders, run \in RunIds \cup {NilRun}, ev \in Events,
          n \in ResultLens : RecordToolEvent(t, run, ev, n)
    \/ \E t \in ToolRecorders, err \in InsertErrors : RecordInsert(t, err)
    \/ \E t \in ToolRecorders : AppendLock(t)
    \/ \E t \in ToolRecorders : AppendRead(t)
    \/ \E t \in ToolRecorders : appendToolEvent(t)
    \/ \E t \in Finishers, run \in RunIds \cup {NilRun}, fin \in Finishes :
          FinishRun(t, run, fin.exitCode, fin.now)
    \/ \E t \in Finishers : SnapshotLock(t)
    \/ \E t \in Finishers : SnapshotCopy(t)
    \/ \E t \in Finishers : snapshot(t)
    \/ \E t \in Finishers, err \in InsertErrors : FinishUpsert(t, err)
    \/ \E t \in Finishers, run \in RunIds \cup {NilRun}, payload \in Payloads,
          err \in InsertErrors : RecordContextEvent(t, run, payload, 1, err)
    \/ \E t \in Finishers, run \in RunIds \cup {NilRun}, et \in EventTypes, st \in Statuses,
          err \in InsertErrors : RecordRunEvent(t, run, et, ArgsNil, st, 9, <<>>, err)
    \/ \E t \in Finishers : ensureSchema(t)
    \/ \E t \in Finishers, err \in InsertErrors \cup {ErrDupPgType, ErrRelationExists} :
          EnsureExec(t, err)

SpecTrace == InitTrace /\ [][NextTrace]_vars

\* tool events of every kind recorded by one goroutine
NextRows ==
    \/ \E t \in ToolRecorders, run \in RunIds \cup {NilRun}, ev \in TraceEvents,
          n \in ResultLens : RecordToolEvent(t, run, ev, n)
    \/ \E t \in ToolRecorders, err \in InsertErrors : RecordInsert(t, err)
    \/ \E t \in ToolRecorders : AppendLock(t)
    \/ \E t \in ToolRecorders : AppendRead(t)
    \/ \E t \in ToolRecorders : appendToolEvent(t)

SpecRows == InitTrace /\ [][NextRows]_vars

---------------------------------------------------------------------------
(* Run and iteration carried by a context.Context.  A context is the chain
   of the values attached since context.Background(), the innermost last;
   every key is a type of its own package, so a value of another package
   sits under another key. *)

MaxCtx == 3

RunKey == "runContextKey"
IterationKey == "iterationContextKey"
OtherKey == "otherKey"

Iterations == {0, 1, 2}

\* context.WithValue(parent, key, val)
WithValue(parent, key, val) == Append(parent, [key |-> key, val |-> val])

\* mutation: the outermost value under the key is found
ValueOutermost(c, key) ==
    LET at == {i \in 1..Len(c) : c[i].key = key}
    IN  IF at = {} THEN [found |-> FALSE, val |-> 0]
        ELSE [found |-> TRUE, val |-> c[CHOOSE i \in at : \A j \in at : j >= i].val]

\* ctx.Value(key): the innermost value under the key, or nil
Value(c, key) ==
    LET at == {i \in 1..Len(c) : c[i].key = key}
    IN  IF at = {} THEN [found |-> FALSE, val |-> 0]
        ELSE [found |-> TRUE, val |-> c[CHOOSE i \in at : \A j \in at : j <= i].val]

\* RunFromContext: run, ok := ctx.Value(runContextKey{}).(*Run);
\* return run, ok && run != nil
RunFromContext(c) ==
    LET v == Value(c, RunKey)
    IN  IF v.found THEN [run |-> v.val, ok |-> v.val # NilRun]
        ELSE [run |-> NilRun, ok |-> FALSE]

\* IterationFromContext: if n, ok := v.(int); ok { return n }; return 0
IterationFromContext(c) ==
    LET v == Value(c, IterationKey) IN IF v.found THEN v.val ELSE 0

\* ctx = WithRun(ctx, run)
WithRun(run) ==
    /\ run = NilRun \/ Len(ctx) < MaxCtx
    /\ ctx' = IF run = NilRun THEN ctx ELSE WithValue(ctx, RunKey, run)
    /\ cOp' = [op |-> "WithRun", arg |-> run, before |-> ctx]
    /\ UNCHANGED <<hookVars, guardVars, dsnVars, writerVars, raceVars, runVars, finVars, argVars, nestVars>>

\* ctx = WithIteration(ctx, iteration)
WithIteration(iteration) ==
    /\ Len(ctx) < MaxCtx
    /\ ctx' = WithValue(ctx, IterationKey, iteration)
    /\ cOp' = [op |-> "WithIteration", arg |-> iteration, before |-> ctx]
    /\ UNCHANGED <<hookVars, guardVars, dsnVars, writerVars, raceVars, runVars, finVars, argVars, nestVars>>

\* another package attaches a value of its own
WithOther(val) ==
    /\ Len(ctx) < MaxCtx
    /\ ctx' = WithValue(ctx, OtherKey, val)
    /\ cOp' = [op |-> "WithValue", arg |-> val, before |-> ctx]
    /\ UNCHANGED <<hookVars, guardVars, dsnVars, writerVars, raceVars, runVars, finVars, argVars, nestVars>>

InitCtx ==
    /\ HooksIdle
    /\ GuardIdle
    /\ DsnIdle
    /\ WriterIdle
    /\ RaceIdle
    /\ RunsIdle
    /\ FinIdle
    /\ ArgIdle
    /\ NestIdle
    /\ ctx = Background
    /\ cOp = CtxOp0

NextCtx ==
    \/ \E run \in RunIds \cup {NilRun} : WithRun(run)
    \/ \E n \in Iterations : WithIteration(n)
    \/ \E val \in {"task1"} : WithOther(val)

SpecCtx == InitCtx /\ [][NextCtx]_vars

---------------------------------------------------------------------------
(* The guard's two scans side by side: one text as the string value of a
   tool argument (BeforeTool, which scans json.Marshal of the argument map)
   and as the content of an outbound message (BeforeOutbound, which scans
   the content itself). *)

ApiKeyName == <<"a","p","i","_","k","e","y">>
ApikeyName == <<"a","p","i","k","e","y">>
ApiKeyNames == {ApiKeyName, ApikeyName}
ArgKeys == ApiKeyNames \cup {ConfigKey}

\* what precedes the credential in the text; "<" is escaped by json.Marshal
ArgPres == {<<>>, <<"x">>, <<"<">>}

ArgPosts == {<<>>, <<".">>}

\* shapes of SpecGuard in lower case, and "plain": the body alone
ArgShapeNames == {"sk", "ghp", "pem", "xoxb", "plain"} \cup ApiKeyShapes

ArgShapes ==
    [pat : ArgShapeNames, upper : {FALSE}, n : 0..MaxRun, body : BodyKinds,
     pre : ArgPres, post : ArgPosts]

ArgTextOf(sh) ==
    IF sh.pat = "plain" THEN sh.pre \o BodyOf(sh.body, sh.n) \o sh.post ELSE TextOf(sh)

\* the argument map {key: text}
ArgsOf(key, text) == [nil |-> FALSE, kv |-> << <<key, text>> >>]

InvocationOf(key, text) ==
    [Name |-> "exec", Args |-> ArgsOf(key, text), Channel |-> "telegram", ChatID |-> "42"]

MessageOf(text) == [Channel |-> "telegram", ChatID |-> "42", Content |-> text]

InitArgs ==
    /\ HooksIdle
    /\ GuardIdle
    /\ DsnIdle
    /\ WriterIdle
    /\ RaceIdle
    /\ RunsIdle
    /\ FinIdle
    /\ CtxIdle
    /\ NestIdle
    /\ aKey = <<>>
    /\ aShape = <<>>
    /\ aTool = ""
    /\ aOut = ""
    /\ aPc = "input"

\* a text and the name of the argument that carries it
ArgsInput(key, sh) ==
    /\ aPc = "input"
    /\ aKey' = key
    /\ aShape' = sh
    /\ aPc' = "tool"
    /\ UNCHANGED <<aTool, aOut>>
    /\ UNCHANGED <<hookVars, guardVars, dsnVars, writerVars, raceVars, runVars, finVars, ctxVars, nestVars>>

\* g.BeforeTool(ctx, in) with in.Args = {key: text}
ArgsBeforeTool ==
    /\ aPc = "tool"
    /\ aTool' = GuardBeforeTool(InvocationOf(aKey, ArgTextOf(aShape))).err
    /\ aPc' = "outbound"
    /\ UNCHANGED <<aKey, aShape, aOut>>
    /\ UNCHANGED <<hookVars, guardVars, dsnVars, writerVars, raceVars, runVars, finVars, ctxVars, nestVars>>

\* g.BeforeOutbound(ctx, msg) with msg.Content = text
ArgsBeforeOutbound ==
    /\ aPc = "outbound"
    /\ aOut' = GuardBeforeOutbound(MessageOf(ArgTextOf(aShape))).err
    /\ aPc' = "done"
    /\ UNCHANGED <<aKey, aShape, aTool>>
    /\ UNCHANGED <<hookVars, guardVars, dsnVars, writerVars, raceVars, runVars, finVars, ctxVars, nestVars>>

NextArgs ==
    \/ \E key \in ArgKeys, sh \in ArgShapes : ArgsInput(key, sh)
    \/ ArgsBeforeTool
    \/ ArgsBeforeOutbound

SpecArgs == InitArgs /\ [][NextArgs]_vars

---------------------------------------------------------------------------
(* Hooks that call the manager.  One goroutine registers handlers and
   dispatches; some handlers make a call on the same manager before they
   return.  The frame of the call that is waiting for its handler is kept on
   stack, as the goroutine's call stack keeps it; th holds the frame of the
   innermost call. *)

MaxNest == 3
MaxDepth == 2

Caller == "g1"

NestInv == [Name |-> "exec", Args |-> ArgsQuery, Channel |-> "telegram", ChatID |-> "42"]
NestOut == [IsError |-> FALSE, ForLLM |-> "out", ForUser |-> "", Async |-> FALSE]
NestMsg == [Channel |-> "telegram", ChatID |-> "42", Content |-> ContentPlain]

Call0 == [op |-> "", arg |-> <<>>, stage |-> "", eerr |-> NoErr, meta |-> {}]

RegisterCall(op, h) == [Call0 EXCEPT !.op = op, !.arg = h]
RunCall(op, arg) == [Call0 EXCEPT !.op = op, !.arg = arg]
EmitCall(stage, err) == [Call0 EXCEPT !.op = "EmitError", !.stage = stage, !.eerr = err,
                                      !.meta = {<<"k", "v">>}]

\* handlers that call the manager and then return what they were given
NestingHooks == {"bt_reg", "bt_emit", "bt_out", "bo_tool", "oe_after", "oe_reg"}

\* the call each of them makes
InnerCall(h) ==
    CASE h = "bt_reg"   -> RegisterCall("RegisterBeforeTool", "bt_rename")
      [] h = "bt_emit"  -> EmitCall("hook", "boom")
      [] h = "bt_out"   -> RunCall("RunBeforeOutbound", NestMsg)
      [] h = "bo_tool"  -> RunCall("RunBeforeTool", NestInv)
      [] h = "oe_after" -> RunCall("RunAfterTool", <<NestInv, NestOut>>)
      [] h = "oe_reg"   -> RegisterCall("RegisterOnError", "oe_log")

\* the calls the goroutine makes itself
TopCalls ==
    {RegisterCall("RegisterBeforeTool", h) : h \in {"bt_reg", "bt_emit", "bt_out", "bt_deny"}}
    \cup {RegisterCall("RegisterBeforeOutbound", h) : h \in {"bo_tool", "bo_deny"}}
    \cup {RegisterCall("RegisterOnError", h) : h \in {"oe_after", "oe_reg"}}
    \cup {RegisterCall("RegisterAfterTool", "at_audit")}
    \cup {RunCall("RunBeforeTool", NestInv), RunCall("RunBeforeOutbound", NestMsg),
          RunCall("RunAfterTool", <<NestInv, NestOut>>), EmitCall("agent_loop", "boom")}

\* the frame with which a call on the manager begins
EntryOf(c) ==
    CASE c.op \in RegisterOps -> RegisterEntry(c.op, "mgr", c.arg)
      [] c.op \in RunOps      -> [Frame0 EXCEPT !.op = c.op, !.arg = c.arg, !.pc = "rlock",
                                                !.atCall = ListOf(c.op)]
      [] c.op = "EmitError"   -> [Frame0 EXCEPT !.op = "EmitError", !.pc = "emit",
                                                !.stage = c.stage, !.eerr = c.eerr,
                                                !.meta = c.meta]

\* the handler a frame's loop is about to invoke, NilHook when it is not at one
HookOf(f) ==
    IF f.pc = "loop" /\ f.i <= Len(f.hooks) THEN HookAt(f.hooks, f.i)
    ELSE IF f.pc = "e_loop" /\ f.j <= Len(f.ehooks) THEN HookAt(f.ehooks, f.j)
    ELSE NilHook

ListName(op) ==
    CASE op = "RunBeforeTool"     -> "beforeTool"
      [] op = "RunAfterTool"      -> "afterTool"
      [] op = "RunBeforeOutbound" -> "beforeOutbound"

InitNest ==
    /\ HooksIdle
    /\ GuardIdle
    /\ TraceIdle

\* the goroutine calls a method of the manager
NestTop(c) ==
    /\ th[Caller].pc \in {"idle", "done"}
    /\ stack = <<>>
    /\ nnest < MaxNest
    /\ nnest' = nnest + 1
    /\ th' = [th EXCEPT ![Caller] = EntryOf(c)]
    /\ calls' = [calls EXCEPT ![Caller] = <<>>]
    /\ UNCHANGED stack
    /\ UNCHANGED <<beforeTool, afterTool, beforeOutbound, onError, muW, muR, ctor, nregs, nruns>>
    /\ UNCHANGED <<guardVars, dsnVars, writerVars, raceVars, runVars, finVars, ctxVars, argVars>>

\* h(ctx, ...) of a loop, for a handler that calls the manager: the call
\* begins, the loop's frame waits
NestCall ==
    LET f == th[Caller] IN
    /\ HookOf(f) \in NestingHooks
    /\ Len(stack) < MaxDepth
    /\ stack' = Append(stack, f)
    /\ th' = [th EXCEPT ![Caller] = EntryOf(InnerCall(HookOf(f)))]
    /\ UNCHANGED nnest
    /\ UNCHANGED <<beforeTool, afterTool, beforeOutbound, onError, muW, muR, calls, ctor,
                   nregs, nruns>>
    /\ UNCHANGED <<guardVars, dsnVars, writerVars, raceVars, runVars, finVars, ctxVars, argVars>>

\* the handler's record once it returned: what it was given, and the same
\* value with a nil error where its type returns one
NestRecord(f) ==
    IF f.pc = "e_loop"
    THEN [list |-> "onError", hook |-> HookOf(f), arg |-> <<f.stage, f.eerr, f.meta>>,
          res |-> <<>>]
    ELSE IF f.op = "RunAfterTool"
    THEN [list |-> "afterTool", hook |-> HookOf(f), arg |-> f.arg, res |-> <<>>]
    ELSE [list |-> ListName(f.op), hook |-> HookOf(f), arg |-> ChainInput(f),
          res |-> [val |-> ChainInput(f), err |-> NoErr]]

\* the call the handler made is over and the handler returns: the loop that
\* invoked it goes on with its next handler
NestReturn ==
    LET f == stack[Len(stack)] IN
    /\ stack # <<>>
    /\ th[Caller].pc \in {"idle", "done"}
    /\ stack' = SubSeq(stack, 1, Len(stack) - 1)
    /\ calls' = [calls EXCEPT ![Caller] = Append(@, NestRecord(f))]
    /\ th' = [th EXCEPT ![Caller] = IF f.pc = "e_loop" THEN [f EXCEPT !.j = f.j + 1]
                                    ELSE [f EXCEPT !.i = f.i + 1]]
    /\ UNCHANGED nnest
    /\ UNCHANGED <<beforeTool, afterTool, beforeOutbound, onError, muW, muR, ctor, nregs, nruns>>
    /\ UNCHANGED <<guardVars, dsnVars, writerVars, raceVars, runVars, finVars, ctxVars, argVars>>

\* the handler at hand returns without calling the manager
PlainHook == HookOf(th[Caller]) \notin NestingHooks

\* the loops' iterations for such handlers
PlainBeforeTool == PlainHook /\ BeforeToolInvoke(Caller)

PlainAfterTool == PlainHook /\ AfterToolInvoke(Caller)

PlainBeforeOutbound == PlainHook /\ BeforeOutboundInvoke(Caller)

PlainOnError == PlainHook /\ EmitInvoke(Caller)

NextNest ==
    \/ \E c \in TopCalls : NestTop(c)
    \/ NestCall
    \/ NestReturn
    \/ RegLock(Caller)
    \/ RegAppend(Caller)
    \/ RLock(Caller)
    \/ Snapshot(Caller)
    \/ PlainBeforeTool
    \/ BeforeToolReturn(Caller)
    \/ PlainAfterTool
    \/ AfterToolReturn(Caller)
    \/ PlainBeforeOutbound
    \/ BeforeOutboundReturn(Caller)
    \/ EmitEntry(Caller)
    \/ EmitRLock(Caller)
    \/ EmitSnapshot(Caller)
    \/ PlainOnError
    \/ EmitReturn(Caller)

SpecNest == InitNest /\ [][NextNest]_vars

---------------------------------------------------------------------------
(* Concurrent registrations.  Two goroutines register handlers, each handler
   by one call only, so that a list shows which calls took effect; the first
   goroutine also dispatches a tool invocation or an outbound message.  The append of a Register* call is taken apart
   here: the slice is read (hooks holds what was read), then the new slice
   is stored. *)

MaxConc == 4

\* what each goroutine registers: the method, the handler, and the handler
\* it registers on the same list before that one (NilHook: none)
Registrations ==
    [g1 |-> {[op |-> "RegisterBeforeTool", h |-> "bt_rename", after |-> NilHook],
             [op |-> "RegisterBeforeTool", h |-> "bt_deny", after |-> "bt_rename"],
             [op |-> "RegisterBeforeOutbound", h |-> "bo_reroute", after |-> NilHook],
             [op |-> "RegisterBeforeOutbound", h |-> "bo_deny", after |-> "bo_reroute"]},
     g2 |-> {[op |-> "RegisterBeforeTool", h |-> "bt_guard", after |-> NilHook],
             [op |-> "RegisterOnError", h |-> "oe_log", after |-> NilHook],
             [op |-> "RegisterOnError", h |-> "oe_alert", after |-> "oe_log"]}]

AllHooks == beforeTool \o afterTool \o beforeOutbound \o onError

InList(list, h) == \E i \in 1..Len(list) : list[i] = h

\* the Register* calls that have begun and not returned
Registering == {t \in Threads : th[t].op \in RegisterOps /\ th[t].pc \in {"lock", "append", "store"}}

\* no call has registered h or is registering it
FreshHook(h) == ~InList(AllHooks, h) /\ \A t \in Registering : th[t].arg # h

InitConc ==
    /\ HooksIdle
    /\ GuardIdle
    /\ TraceIdle

\* goroutine t calls m.Register*(h) with one of its handlers
ConcRegister(t, r) ==
    /\ th[t].pc \in {"idle", "done"}
    /\ nregs < MaxConc
    /\ FreshHook(r.h)
    /\ r.after # NilHook => InList(ListOf(r.op), r.after)
    /\ nregs' = nregs + 1
    /\ th' = [th EXCEPT ![t] = RegisterEntry(r.op, "mgr", r.h)]
    /\ calls' = [calls EXCEPT ![t] = <<>>]
    /\ UNCHANGED <<beforeTool, afterTool, beforeOutbound, onError, muW, muR, ctor, nruns>>
    /\ UNCHANGED <<guardVars, traceVars>>

\* append(m.list, h) reads the slice
ConcRead(t) ==
    LET f == th[t] IN
    /\ f.op \in RegisterOps
    /\ f.pc = "append"
    /\ th' = [th EXCEPT ![t] = [f EXCEPT !.pc = "store", !.hooks = ListOf(f.op)]]
    /\ UNCHANGED <<beforeTool, afterTool, beforeOutbound, onError, muW, muR, calls, ctor,
                   nregs, nruns>>
    /\ UNCHANGED <<guardVars, traceVars>>

\* m.list = append(...) stores the new slice; the deferred m.mu.Unlock()
ConcStore(t) ==
    LET f == th[t]
        new == AppendHook(f.hooks, f.arg)
    IN
    /\ f.op \in RegisterOps
    /\ f.pc = "store"
    /\ beforeTool' = IF f.op = "RegisterBeforeTool" THEN new ELSE beforeTool
    /\ afterTool' = IF f.op = "RegisterAfterTool" THEN new ELSE afterTool
    /\ beforeOutbound' = IF f.op = "RegisterBeforeOutbound" THEN new ELSE beforeOutbound
    /\ onError' = IF f.op = "RegisterOnError" THEN new ELSE onError
    /\ muW' = None
    /\ th' = [th EXCEPT ![t] = Frame0]
    /\ UNCHANGED <<muR, calls, ctor, nregs, nruns>>
    /\ UNCHANGED <<guardVars, traceVars>>

NextConc ==
    \/ \E t \in Threads : \E r \in Registrations[t] : ConcRegister(t, r)
    \/ \E t \in Threads : RegLock(t)
    \/ \E t \in Threads : ConcRead(t)
    \/ \E t \in Threads : ConcStore(t)
    \/ \E t \in Dispatchers : RunBeforeTool(t, "mgr", NestInv)
    \/ \E t \in Dispatchers : RLock(t)
    \/ \E t \in Dispatchers : Snapshot(t)
    \/ \E t \in Dispatchers : BeforeToolInvoke(t)
    \/ \E t \in Dispatchers : BeforeToolReturn(t)
    \/ \E t \in Dispatchers : RunBeforeOutbound(t, "mgr", NestMsg)
    \/ \E t \in Dispatchers : BeforeOutboundInvoke(t)
    \/ \E t \in Dispatchers : BeforeOutboundReturn(t)
    \/ \E t \in Dispatchers : EmitEntry(t)
    \/ \E t \in Dispatchers : EmitRLock(t)
    \/ \E t \in Dispatchers : EmitSnapshot(t)
    \/ \E t \in Dispatchers : EmitInvoke(t)
    \/ \E t \in Dispatchers : EmitReturn(t)

SpecConc == InitConc /\ [][NextConc]_vars

---------------------------------------------------------------------------
(* The life of a manager built by NewDefaultManager.  Two goroutines register
   further handlers, among them handlers that put a credential into the
   value they are given; the first goroutine dispatches tool invocations and
   outbound messages, with and without a credential, before, between and
   after the registrations. *)

MaxLife == 4

LaterHooks ==
    {[op |-> "RegisterBeforeTool", h |-> "bt_inject"],
     [op |-> "RegisterBeforeTool", h |-> "bt_deny"],
     [op |-> "RegisterBeforeOutbound", h |-> "bo_inject"],
     [op |-> "RegisterOnError", h |-> "oe_log"]}

LifeInvocations == {in \in Invocations : in.Args \in {ArgsQuery, ArgsToken}}

InitDefault ==
    /\ ctor = "NewDefaultManager"
    /\ NewDefaultManager
    /\ muW = None
    /\ muR = {}
    /\ th = [t \in Threads |-> Frame0]
    /\ calls = [t \in Threads |-> <<>>]
    /\ nregs = 0
    /\ nruns = 0
    /\ GuardIdle
    /\ TraceIdle

\* goroutine t calls a method of the manager
LifeEnter(t, f) ==
    /\ th[t].pc \in {"idle", "done"}
    /\ nregs + nruns < MaxLife
    /\ nregs' = IF f.op \in RegisterOps THEN nregs + 1 ELSE nregs
    /\ nruns' = IF f.op \in RegisterOps THEN nruns ELSE nruns + 1
    /\ th' = [th EXCEPT ![t] = f]
    /\ calls' = [calls EXCEPT ![t] = <<>>]
    /\ UNCHANGED <<beforeTool, afterTool, beforeOutbound, onError, muW, muR, ctor>>
    /\ UNCHANGED <<guardVars, traceVars>>

\* m.Register*(h)
LifeRegister(t, r) ==
    /\ FreshHook(r.h)
    /\ LifeEnter(t, RegisterEntry(r.op, "mgr", r.h))

\* m.RunBeforeTool(ctx, in)
LifeRunBeforeTool(t, in) ==
    LifeEnter(t, [Frame0 EXCEPT !.op = "RunBeforeTool", !.arg = in, !.pc = "rlock",
                                !.atCall = beforeTool])

\* m.RunBeforeOutbound(ctx, msg)
LifeRunBeforeOutbound(t, msg) ==
    LifeEnter(t, [Frame0 EXCEPT !.op = "RunBeforeOutbound", !.arg = msg, !.pc = "rlock",
                                !.atCall = beforeOutbound])

NextDefault ==
    \/ \E t \in Threads : \E r \in LaterHooks : LifeRegister(t, r)
    \/ \E t \in Dispatchers : \E in \in LifeInvocations : LifeRunBeforeTool(t, in)
    \/ \E t \in Dispatchers : \E msg \in Messages : LifeRunBeforeOutbound(t, msg)
    \/ \E t \in Threads : RegLock(t)
    \/ \E t \in Threads : RegAppend(t)
    \/ \E t \in Dispatchers : RLock(t)
    \/ \E t \in Dispatchers : Snapshot(t)
    \/ \E t \in Dispatchers : BeforeToolInvoke(t)
    \/ \E t \in Dispatchers : BeforeToolReturn(t)
    \/ \E t \in Dispatchers : BeforeOutboundInvoke(t)
    \/ \E t \in Dispatchers : BeforeOutboundReturn(t)
    \/ \E t \in Dispatchers : EmitEntry(t)
    \/ \E t \in Dispatchers : EmitRLock(t)
    \/ \E t \in Dispatchers : EmitSnapshot(t)
    \/ \E t \in Dispatchers : EmitInvoke(t)
    \/ \E t \in Dispatchers : EmitReturn(t)

SpecDefault == InitDefault /\ [][NextDefault]_vars

---------------------------------------------------------------------------
(* What a call's record of hook invocations says *)

IsPrefix(a, b) == Len(a) <= Len(b) /\ \A k \in 1..Len(a) : a[k] = b[k]

LogOf(t, list) == SelectSeq(calls[t], LAMBDA c : c.list = list)

HooksIn(log) == [k \in 1..Len(log) |-> log[k].hook]

Returned(t, op) == th[t].op = op /\ th[t].pc = "done" /\ th[t].recv = "mgr"

\* C1: in a RunBeforeTool call on a manager, the handlers invoked so far are
\* the first handlers of the snapshot, in the list's order (which is the
\* order of registration: the snapshot is a prefix of the list); the first
\* got the caller's invocation, each later one the invocation the one before
\* it returned; and a call that returned a nil error invoked every handler of
\* the snapshot and returned the last one's invocation (the caller's own
\* when there is no handler), no handler having failed.
C1_BeforeToolChain ==
    \A t \in Threads :
        (th[t].op = "RunBeforeTool" /\ th[t].recv = "mgr") =>
            LET f == th[t]
                L == LogOf(t, "beforeTool")
            IN  /\ IsPrefix(HooksIn(L), f.hooks)
                /\ IsPrefix(f.hooks, beforeTool)
                /\ Len(L) > 0 => L[1].arg = f.arg
                /\ \A k \in 2..Len(L) : L[k].arg = L[k - 1].res.val
                /\ \A k \in 1..(Len(L) - 1) : L[k].res.err = NoErr
                /\ (f.pc = "done" /\ f.ret.err = NoErr) =>
                      /\ calls[t] = L
                      /\ HooksIn(L) = f.hooks
                      /\ \A k \in 1..Len(L) : L[k].res.err = NoErr
                      /\ f.ret.val = IF Len(L) = 0 THEN f.arg ELSE L[Len(L)].res.val

\* a RunBeforeTool call returned nil after two handlers, the second of which
\* got a rewritten invocation
C1_Witness ==
    \E t \in Threads :
        /\ Returned(t, "RunBeforeTool")
        /\ th[t].ret.err = NoErr
        /\ Len(calls[t]) >= 2
        /\ calls[t][2].arg # th[t].arg
        /\ th[t].ret.val # th[t].arg

\* C2: a RunBeforeTool call that returned an error ran the handlers 1..k of
\* its snapshot once each, in order, where handler k is the first (and only)
\* one that failed, and no handler after k; then it invoked every on-error
\* handler registered at that moment once, in order, each with stage
\* "before_tool", that error and the metadata tool = the name of the caller's
\* invocation; and the error it returned is handler k's.
C2_BeforeToolShortCircuit ==
    \A t \in Threads :
        (Returned(t, "RunBeforeTool") /\ th[t].ret.err # NoErr) =>
            LET f  == th[t]
                L  == LogOf(t, "beforeTool")
                E  == LogOf(t, "onError")
                k  == Len(L)
            IN  /\ k >= 1 /\ k <= Len(f.hooks)
                /\ HooksIn(L) = SubSeq(f.hooks, 1, k)
                /\ \A j \in 1..(k - 1) : L[j].res.err = NoErr
                /\ L[k].res.err = f.ret.err
                /\ calls[t] = L \o E
                /\ HooksIn(E) = f.ehooks
                /\ IsPrefix(f.eAtCall, f.ehooks) /\ IsPrefix(f.ehooks, onError)
                /\ \A j \in 1..Len(E) :
                      E[j].arg = <<"before_tool", f.ret.err, {<<"tool", f.arg.Name>>}>>
                /\ f.meta = {<<"tool", f.arg.Name>>}

\* a RunBeforeTool call returned an error from a handler that is not the
\* last of its snapshot, and an on-error handler was told
C2_Witness ==
    \E t \in Threads :
        /\ Returned(t, "RunBeforeTool")
        /\ th[t].ret.err # NoErr
        /\ Len(LogOf(t, "beforeTool")) < Len(th[t].hooks)
        /\ Len(LogOf(t, "onError")) >= 1

\* the name, in the record of hook invocations, of the list a Run* method
\* dispatches
LogName(op) ==
    CASE op = "RunBeforeTool"     -> "beforeTool"
      [] op = "RunAfterTool"      -> "afterTool"
      [] op = "RunBeforeOutbound" -> "beforeOutbound"

\* C3: RunBeforeOutbound over the before-outbound list: the handlers run in
\* the snapshot's order, each fed the message the one before returned; a nil
\* return means all ran and the last one's message is returned; an error
\* return means handler k failed first, none after it ran, every on-error
\* handler registered then was invoked once with stage "before_outbound",
\* that error and the channel and chat id of the caller's message, and that
\* error is returned.
C3_BeforeOutboundPipeline ==
    \A t \in Threads :
        (th[t].op = "RunBeforeOutbound" /\ th[t].recv = "mgr") =>
            LET f == th[t]
                L == LogOf(t, "beforeOutbound")
                E == LogOf(t, "onError")
                k == Len(L)
                m == {<<"channel", f.arg.Channel>>, <<"chat_id", f.arg.ChatID>>}
            IN  /\ IsPrefix(HooksIn(L), f.hooks)
                /\ IsPrefix(f.hooks, beforeOutbound)
                /\ k > 0 => L[1].arg = f.arg
                /\ \A j \in 2..k : L[j].arg = L[j - 1].res.val
                /\ \A j \in 1..(k - 1) : L[j].res.err = NoErr
                /\ (f.pc = "done" /\ f.ret.err = NoErr) =>
                      /\ calls[t] = L
                      /\ HooksIn(L) = f.hooks
                      /\ \A j \in 1..k : L[j].res.err = NoErr
                      /\ f.ret.val = IF k = 0 THEN f.arg ELSE L[k].res.val
                /\ (f.pc = "done" /\ f.ret.err # NoErr) =>
                      /\ k >= 1
                      /\ L[k].res.err = f.ret.err
                      /\ calls[t] = L \o E
                      /\ HooksIn(E) = f.ehooks
                      /\ IsPrefix(f.eAtCall, f.ehooks) /\ IsPrefix(f.ehooks, onError)
                      /\ \A j \in 1..Len(E) : E[j].arg = <<"before_outbound", f.ret.err, m>>
                      /\ f.meta = m

\* a RunBeforeOutbound call returned an error from its second handler, the
\* first having rewritten the message
C3_Witness ==
    \E t \in Threads :
        /\ Returned(t, "RunBeforeOutbound")
        /\ th[t].ret.err # NoErr
        /\ Len(LogOf(t, "beforeOutbound")) = 2
        /\ LogOf(t, "beforeOutbound")[2].arg # th[t].arg

\* C4: once a dispatch has taken its snapshot, the snapshot holds every
\* handler that was in the list when the call began, in order and first, and
\* is itself the beginning of the list as it is now; the handlers the
\* dispatch invokes are those of the snapshot, in order, whatever is
\* registered meanwhile, and a dispatch that is not cut short by an error
\* invokes all of them.  The same holds of EmitError and the on-error list.
C4_SnapshotIsolation ==
    \A t \in Threads :
        LET f == th[t] IN
        /\ (f.op \in RunOps /\ f.recv = "mgr" /\ f.pc \notin {"rlock", "snap"}) =>
              LET L == LogOf(t, LogName(f.op)) IN
              /\ IsPrefix(f.atCall, f.hooks)
              /\ IsPrefix(f.hooks, ListOf(f.op))
              /\ IsPrefix(HooksIn(L), f.hooks)
              /\ (f.pc = "done" /\ (f.op = "RunAfterTool" \/ f.ret.err = NoErr)) =>
                    HooksIn(L) = f.hooks
        /\ f.pc \in {"e_loop", "done"} /\ f.recv = "mgr" /\ f.eerr # NoErr =>
              LET E == LogOf(t, "onError") IN
              /\ IsPrefix(f.eAtCall, f.ehooks)
              /\ IsPrefix(f.ehooks, onError)
              /\ IsPrefix(HooksIn(E), f.ehooks)
              /\ f.pc = "done" => HooksIn(E) = f.ehooks

\* a dispatch ran to its end on a snapshot of one handler or more while a
\* handler registered after the snapshot is in the list
C4_Witness ==
    \E t \in Threads :
        /\ th[t].op \in RunOps /\ th[t].pc = "done" /\ th[t].recv = "mgr"
        /\ Len(th[t].hooks) >= 1
        /\ HooksIn(LogOf(t, LogName(th[t].op))) = th[t].hooks
        /\ Len(ListOf(th[t].op)) > Len(th[t].hooks)

\* C5: a RunAfterTool call that returned invoked every handler of its
\* snapshot once, in the list's order, each with the invocation and outcome
\* it was given; it invoked nothing else (no on-error handler: EmitError is
\* never entered) and returned no value.
C5_AfterToolFanOut ==
    \A t \in Threads :
        Returned(t, "RunAfterTool") =>
            LET f == th[t] IN
            /\ IsPrefix(f.hooks, afterTool)
            /\ HooksIn(calls[t]) = f.hooks
            /\ \A k \in 1..Len(calls[t]) :
                  calls[t][k].list = "afterTool" /\ calls[t][k].arg = f.arg
            /\ f.ret = <<>>
            /\ f.stage = "" /\ f.ehooks = <<>>

\* a RunAfterTool call returned after two handlers
C5_Witness ==
    \E t \in Threads :
        /\ Returned(t, "RunAfterTool")
        /\ Len(calls[t]) = 2
        /\ calls[t][1].hook # calls[t][2].hook

\* C6: an EmitError call that returned, made by a caller with a non-nil
\* error, invoked every on-error handler of its snapshot (all that were
\* registered when it began) once, in the list's order, each with the stage,
\* error and metadata it was given; made with a nil error it invoked nothing.
C6_EmitErrorFanOut ==
    \A t \in Threads :
        Returned(t, "EmitError") =>
            LET f == th[t] IN
            IF f.eerr = NoErr THEN calls[t] = <<>>
            ELSE /\ IsPrefix(f.eAtCall, f.ehooks) /\ IsPrefix(f.ehooks, onError)
                 /\ HooksIn(calls[t]) = f.ehooks
                 /\ \A k \in 1..Len(calls[t]) :
                       /\ calls[t][k].list = "onError"
                       /\ calls[t][k].arg = <<f.stage, f.eerr, f.meta>>

\* an EmitError call with a non-nil error returned after two handlers
C6_Witness ==
    \E t \in Threads :
        /\ Returned(t, "EmitError")
        /\ th[t].eerr # NoErr
        /\ Len(calls[t]) = 2
        /\ calls[t][1].hook # calls[t][2].hook

Appends(t) == th[t].pc = "append" /\ th'[t].pc # "append"

C7_Step ==
    /\ \A t \in Threads :
          Appends(t) =>
              LET op == th[t].op
                  h  == th[t].arg
              IN  /\ h # NilHook /\ th[t].recv = "mgr"
                  /\ beforeTool' = IF op = "RegisterBeforeTool" THEN Append(beforeTool, h)
                                   ELSE beforeTool
                  /\ afterTool' = IF op = "RegisterAfterTool" THEN Append(afterTool, h)
                                  ELSE afterTool
                  /\ beforeOutbound' = IF op = "RegisterBeforeOutbound"
                                       THEN Append(beforeOutbound, h) ELSE beforeOutbound
                  /\ onError' = IF op = "RegisterOnError" THEN Append(onError, h) ELSE onError
    /\ (\A t \in Threads : ~Appends(t)) =>
          UNCHANGED <<beforeTool, afterTool, beforeOutbound, onError>>
    /\ \A t \in Threads :
          (th'[t] # th[t] /\ th'[t].recv = "nil" /\ th'[t].pc = "done"
              /\ th'[t].op \in {"RunBeforeTool", "RunBeforeOutbound"}) =>
              /\ th'[t].ret = [val |-> th'[t].arg, err |-> NoErr]
              /\ calls'[t] = <<>>

\* C7: the step in which a Register* call with a non-nil handler on a manager
\* takes effect appends that handler at the end of the call's own list and
\* leaves the list's elements and the other three lists as they were; every
\* other step, among them a Register* call with a nil handler or on the nil
\* manager, leaves the four lists unchanged; RunBeforeTool and
\* RunBeforeOutbound on the nil manager return their argument and a nil
\* error, no handler being invoked.
C7_RegisterAppends == [][C7_Step]_vars

\* every registration of the budget took effect, two of them on one list,
\* the later handler after the earlier one
C7_Witness ==
    \E op \in RegisterOps :
        /\ Len(ListOf(op)) >= 2
        /\ ListOf(op)[Len(ListOf(op))] # ListOf(op)[1]
        /\ nregs = MaxRegs
        /\ \A t \in Threads : th[t].pc # "append"

SecretArgs == {ArgsToken, ArgsConfig}
SecretContents == {ContentSecret}

\* C8: a manager built by NewDefaultManager on which no Register* call was
\* made holds the guard as the one before-tool handler and the one
\* before-outbound handler, and no after-tool or on-error handler; and on a
\* manager built by NewDefaultManager a RunBeforeTool call with
\* secret-bearing arguments and a RunBeforeOutbound call with secret-bearing
\* content return the guard's error.
C8_DefaultManagerGuards ==
    ctor = "NewDefaultManager" =>
        /\ nregs = 0 =>
              /\ beforeTool = <<"bt_guard">>
              /\ beforeOutbound = <<"bo_guard">>
              /\ afterTool = <<>>
              /\ onError = <<>>
        /\ \A t \in Threads :
              /\ (Returned(t, "RunBeforeTool") /\ th[t].arg.Args \in SecretArgs) =>
                    th[t].ret.err = ErrToolSecret
              /\ (Returned(t, "RunBeforeOutbound") /\ th[t].arg.Content \in SecretContents) =>
                    th[t].ret.err = ErrOutboundSecret

\* on a default manager with no registration, a RunBeforeOutbound call with
\* secret-bearing content returned the guard's error
C8_Witness ==
    /\ ctor = "NewDefaultManager"
    /\ nregs = 0
    /\ \E t \in Threads :
          /\ Returned(t, "RunBeforeOutbound")
          /\ th[t].arg.Content \in SecretContents
          /\ th[t].ret.err = ErrOutboundSecret

\* C9: a RunBeforeTool call whose snapshot holds the guard and nothing else
\* returns a non-nil error exactly when the arguments are secret-bearing
\* (the ghp_ token, the api_key assignment), a nil error for the others (the
\* weather query, the nil map), and in both cases the invocation it was
\* given.
C9_GuardOnlyBeforeTool ==
    \A t \in Threads :
        (Returned(t, "RunBeforeTool") /\ th[t].hooks = <<"bt_guard">>) =>
            /\ th[t].ret.err # NoErr <=> th[t].arg.Args \in SecretArgs
            /\ th[t].ret.err \in {NoErr, ErrToolSecret}
            /\ th[t].ret.val = th[t].arg

\* the guard, alone, blocked the call with the ghp_ token
C9_Witness ==
    \E t \in Threads :
        /\ Returned(t, "RunBeforeTool")
        /\ th[t].hooks = <<"bt_guard">>
        /\ th[t].arg.Args = ArgsToken
        /\ th[t].ret = [val |-> th[t].arg, err |-> ErrToolSecret]

---------------------------------------------------------------------------
(* The guard's patterns, on the texts of SpecGuard *)

Scanned == gpc = "done"

LastOf(s) == s[Len(s)]

\* the text before the shape ends at a word boundary, and so does the body
OpensAtBoundary(sh) == sh.pre = <<>> \/ ~IsWord(LastOf(sh.pre))
ClosesAtBoundary(sh) ==
    /\ sh.n > 0 /\ IsWord(LastOf(BodyOf(sh.body, sh.n)))
    /\ sh.post = <<>> \/ ~IsWord(sh.post[1])

\* C10 as stated: sk- and 16 alphanumerics, ghp_ and 20 alphanumerics,
\* xox[baprs]- and 12 alphanumerics or hyphens, an api_key assignment and 12
\* characters, a PEM private-key header: each is flagged wherever it occurs
\* in the text, in either case.
C10_AsStated ==
    Scanned =>
        LET sh == gshape IN
        /\ (sh.pat = "sk" /\ sh.body = "alnum" /\ sh.n >= MinSk) => gres
        /\ (sh.pat = "ghp" /\ sh.body = "alnum" /\ sh.n >= MinGhp) => gres
        /\ (sh.pat \in XoxShapes /\ sh.n >= MinXox) => gres
        /\ (sh.pat \in ApiKeyShapes /\ sh.n >= MinApiKey) => gres
        /\ (sh.pat = "pem" /\ sh.n <= 1) => gres

\* C10, amended: the guard flags, in either case, a text that contains sk-
\* and at least 16 alphanumerics, ghp_ and at least 20 alphanumerics, or
\* xox[baprs]- and at least 12 alphanumerics or hyphens, when the prefix
\* begins at a word boundary and the run ends at one; an api_key, apikey or
\* api-key assignment that begins at a word boundary and at least 12
\* letters, digits, underscores or hyphens; or a PEM private-key header
\* whose key type is letters and spaces only.
C10_FlagsAtWordBoundaries ==
    Scanned =>
        LET sh == gshape
            bounded == OpensAtBoundary(sh) /\ ClosesAtBoundary(sh)
        IN
        /\ (sh.pat = "sk" /\ sh.body = "alnum" /\ sh.n >= MinSk /\ bounded) => gres
        /\ (sh.pat = "ghp" /\ sh.body = "alnum" /\ sh.n >= MinGhp /\ bounded) => gres
        /\ (sh.pat \in XoxShapes /\ sh.n >= MinXox /\ bounded) => gres
        /\ (sh.pat \in ApiKeyShapes /\ sh.n >= MinApiKey /\ OpensAtBoundary(sh)) => gres
        /\ (sh.pat = "pem" /\ (sh.n <= 1 \/ (sh.body = "dashed" /\ sh.n <= 3))) => gres

\* an upper-case GHP_ token of exactly 20 alphanumerics between a blank and
\* a full stop was scanned and flagged
C10_Witness ==
    /\ Scanned
    /\ gshape.pat = "ghp" /\ gshape.upper /\ gshape.n = MinGhp /\ gshape.body = "alnum"
    /\ gshape.pre = <<" ">> /\ gshape.post = <<".">>
    /\ gres

---------------------------------------------------------------------------
(* The guard below its thresholds *)

\* the characters that follow the head of the shape in its text
TailOf(sh) ==
    LET body == BodyOf(sh.body, sh.n)
    IN  (IF sh.upper THEN UpperText(body) ELSE body) \o sh.post

\* how many characters of the class follow the head without a break
RunAfterHead(sh, Class(_)) ==
    LET tail == TailOf(sh)
    IN  CHOOSE r \in 0..Len(tail) :
            /\ AllIn(tail, 1, r + 1, Class)
            /\ (r = Len(tail) \/ ~Class(tail[r + 1]))

\* C11: the guard never flags an empty or whitespace-only text, and never
\* flags a text whose only credential-shaped substring is followed by fewer
\* characters of the pattern's class than the pattern's minimum: fewer than
\* 16 after "sk-", 20 after "ghp_", 12 after "xox?-", 12 after an api_key
\* assignment.
C11_NeverFlagsBelowMinimum ==
    Scanned =>
        LET sh == gshape IN
        /\ sh.pat = "blank" => ~gres
        /\ (sh.pat = "sk" /\ RunAfterHead(sh, IsAlnum) < MinSk) => ~gres
        /\ (sh.pat = "ghp" /\ RunAfterHead(sh, IsAlnum) < MinGhp) => ~gres
        /\ (sh.pat \in XoxShapes /\ RunAfterHead(sh, IsAlnumHyphen) < MinXox) => ~gres
        /\ (sh.pat \in ApiKeyShapes /\ RunAfterHead(sh, IsKeyChar) < MinApiKey) => ~gres

\* "sk-" and 15 alphanumerics on their own were scanned and not flagged
C11_Witness ==
    /\ Scanned
    /\ gshape.pat = "sk"
    /\ gshape.body = "alnum"
    /\ gshape.n = MinSk - 1
    /\ gshape.pre = <<>>
    /\ gshape.post = <<>>
    /\ ~gres

---------------------------------------------------------------------------
(* The error of a block *)

ClaimedPolicyError == "blocked by policy: possible secret detected"

GuardOf(op) == IF op = "RunBeforeTool" THEN "bt_guard" ELSE "bo_guard"

\* the call of t returned because the guard refused what it was given
GuardBlocked(t, op) ==
    /\ Returned(t, op)
    /\ LET L == LogOf(t, LogName(op))
       IN  /\ L # <<>>
           /\ LastOf(L).hook = GuardOf(op)
           /\ LastOf(L).res.err # NoErr

\* C12 as stated: a call the guard blocked returns the error "blocked by
\* policy: possible secret detected".
C12_AsStated ==
    \A t \in Threads : \A op \in {"RunBeforeTool", "RunBeforeOutbound"} :
        GuardBlocked(t, op) => th[t].ret.err = ClaimedPolicyError

\* C12: a tool call the guard blocked returns the error "blocked by hook:
\* tool arguments appear to contain secrets", an outbound message it blocked
\* returns "blocked by hook: outbound content appears to contain secrets";
\* the guard is reached with secret-bearing input only to block it, and no
\* other failing handler returns either error, so that a block by the guard
\* is told apart from another failure.
C12_BlockedByHookError ==
    \A t \in Threads :
        /\ GuardBlocked(t, "RunBeforeTool") => th[t].ret.err = ErrToolSecret
        /\ GuardBlocked(t, "RunBeforeOutbound") => th[t].ret.err = ErrOutboundSecret
        /\ \A op \in {"RunBeforeTool", "RunBeforeOutbound"} :
              (th[t].op = op /\ th[t].recv = "mgr") =>
                  LET L == LogOf(t, LogName(op)) IN
                  \A j \in 1..Len(L) :
                      /\ (L[j].hook = "bt_guard" /\ L[j].arg.Args \in SecretArgs) =>
                            L[j].res.err = ErrToolSecret
                      /\ (L[j].hook = "bo_guard" /\ L[j].arg.Content \in SecretContents) =>
                            L[j].res.err = ErrOutboundSecret
                      /\ L[j].hook # GuardOf(op) =>
                            L[j].res.err \notin {ErrToolSecret, ErrOutboundSecret}

\* on a manager holding the guard and a failing handler after it, a tool
\* call was blocked by the guard and an on-error handler was told so
C12_Witness ==
    \E t \in Threads :
        /\ GuardBlocked(t, "RunBeforeTool")
        /\ Len(th[t].hooks) >= 2
        /\ th[t].ret.err = ErrToolSecret
        /\ \E j \in 1..Len(calls[t]) :
              /\ calls[t][j].list = "onError"
              /\ calls[t][j].arg[2] = ErrToolSecret

---------------------------------------------------------------------------
(* Connection-string normalization *)

Normalized == dPc = "done"

\* C13: a DSN that contains "sslmode=" in any letter case, anywhere, is
\* returned as it is; otherwise a DSN with "://" gets "?sslmode=disable"
\* appended when it has no "?" and "&sslmode=disable" when it has one, and a
\* DSN without "://" gets " sslmode=disable" appended.
C13_NormalizesSslMode ==
    Normalized =>
        LET sh == dShape
            url == sh.base \in UrlBases
            hasQuery == sh.query # <<>>
        IN  /\ sh.ssl \in SslGiven => dOut = dIn
            /\ (sh.ssl \in SslMissing /\ url /\ ~hasQuery) => dOut = dIn \o AsQuery
            /\ (sh.ssl \in SslMissing /\ url /\ hasQuery) => dOut = dIn \o AsParam
            /\ (sh.ssl \in SslMissing /\ ~url) => dOut = dIn \o AsKeyValue

\* a URL with a query string and SSLMODE=verify-full in upper case came back
\* as it was given
C13_Witness ==
    /\ Normalized
    /\ dShape.base \in UrlBases
    /\ dShape.query # <<>>
    /\ dShape.sep = <<"&">>
    /\ dShape.ssl \in SslGiven
    /\ Contains(dShape.ssl, <<"S","S","L">>)
    /\ ~dShape.front
    /\ dOut = dIn

---------------------------------------------------------------------------
(* The trace writer's initialization *)

GoroutinesOf(p) == {t \in Goroutines : ProcOf(t) = p}

\* C14: in each process newTraceWriterFromEnv runs at most once, however
\* many goroutines call GlobalTraceWriter and however their calls interleave;
\* no call gets past once.Do before that run has completed; every call
\* returns the one writer that run made, which is not nil; and when the
\* connection string was absent (empty or blank) at that run the writer is
\* disabled and stays so, whatever the environment holds later.
C14_InitializedOnce ==
    \A p \in Procs :
        /\ ninit[p] <= 1
        /\ once[p] = "done" =>
              /\ globalWriter[p] # NilWriter
              /\ globalWriter[p].id = 1
              /\ ini[p].failed = "dsn" => ~Enabled(globalWriter[p])
        /\ \A t \in GoroutinesOf(p) :
              /\ gw[t].pc \in {"ret", "done"} => once[p] = "done"
              /\ gw[t].pc = "done" => gw[t].ret = globalWriter[p]

\* both goroutines called and got the same disabled writer, and the
\* connection string is set by now
C14_Witness ==
    /\ gw["p1.a"].pc = "done"
    /\ gw["p1.b"].pc = "done"
    /\ gw["p1.a"].ret = gw["p1.b"].ret
    /\ ncalls = 2
    /\ ini["p1"].failed = "dsn"
    /\ TrimSpace(env["p1"]) # <<>>
    /\ ~Enabled(globalWriter["p1"])

InitSteps == <<"open", "ping", "schema">>

StepsOf(trail) == [k \in 1..Len(trail) |-> trail[k][1]]

\* C15: once the initialization has completed: the steps it took are the
\* first of open, ping, ensureSchema, in this order, each but the last
\* having succeeded; the writer is enabled exactly when all three were taken
\* and succeeded, and it then holds the open pool; otherwise it is disabled,
\* holds no pool, and the pool, if it was opened, is closed; in both cases
\* the caller gets a writer and no error.
C15_EnabledOnlyAfterAllSteps ==
    \A p \in Procs :
        once[p] = "done" =>
            LET trail == ini[p].trail
                n == Len(trail)
                w == globalWriter[p]
                allOk == n = 3 /\ \A k \in 1..3 : trail[k][2] = ErrNil
            IN  /\ IsPrefix(StepsOf(trail), InitSteps)
                /\ \A k \in 1..(n - 1) : trail[k][2] = ErrNil
                /\ Enabled(w) <=> allOk
                /\ allOk => (w.db = "db" /\ pool[p] = "open")
                /\ ~allOk =>
                      /\ w = DisabledWriter(1)
                      /\ pool[p] = IF n >= 2 THEN "closed" ELSE "none"
                /\ \A t \in GoroutinesOf(p) : gw[t].pc = "done" => gw[t].ret = w

\* the pool was opened, the ping failed, and the caller got a disabled
\* writer
C15_Witness ==
    /\ once["p1"] = "done"
    /\ Len(ini["p1"].trail) = 2
    /\ ini["p1"].trail[2][2] # ErrNil
    /\ pool["p1"] = "closed"
    /\ \E t \in GoroutinesOf("p1") : gw[t].pc = "done" /\ ~Enabled(gw[t].ret)

---------------------------------------------------------------------------
(* Schema provisioning *)

RaceErrors == {ErrDupPgType, ErrRelationExists}

\* the attempts made before entry j of the log on that entry's statement
EarlierAttempts(log, j) == Cardinality({i \in 1..(j - 1) : log[i].stmt = log[j].stmt})

\* C16: the executions of ensureSchema so far go through the statements in
\* the order of the list, from the first one, without skipping any; each
\* execution but the first of a statement follows a schema-race failure of
\* the same statement, and no statement is executed more than 3 times; a
\* failure with any other error is the last execution: ensureSchema returns
\* that error and the writer is disabled; and ensureSchema returns nil only
\* after the last statement.
C16_EnsureSchemaRetries ==
    \A p \in Procs :
        LET f == ini[p]
            L == f.log
            n == Len(L)
        IN  /\ n > 0 => L[1].stmt = 1
            /\ \A j \in 1..n :
                  /\ L[j].attempt = EarlierAttempts(L, j)
                  /\ L[j].attempt < 3
            /\ \A j \in 1..(n - 1) :
                  /\ L[j + 1].stmt \in {L[j].stmt, L[j].stmt + 1}
                  /\ L[j + 1].stmt = L[j].stmt => L[j].err \in RaceErrors
                  /\ L[j].err \in RaceErrors /\ L[j].attempt < 2 => L[j + 1].stmt = L[j].stmt
                  /\ L[j].err \in RaceErrors \cup {ErrNil}
            /\ (n > 0 /\ L[n].err \notin RaceErrors \cup {ErrNil}) =>
                  /\ f.pc \in {"check", "end"}
                  /\ f.err = L[n].err
                  /\ f.pc = "end" => (f.failed = "schema" /\ ~Enabled(f.w))
            /\ (n > 0 /\ f.pc = "exec") =>
                  f.k = IF L[n].err \in RaceErrors /\ L[n].attempt < 2
                        THEN L[n].stmt ELSE L[n].stmt + 1
            /\ (f.pc \in {"check", "end"} /\ f.err = ErrNil /\ n > 0) => L[n].stmt = Len(Stmts)

\* a statement lost a race and succeeded at its second attempt, a later
\* statement failed with a permission error, and the writer is disabled
C16_Witness ==
    LET f == ini["p1"]
        L == f.log
        n == Len(L)
    IN  /\ f.pc = "end"
        /\ ~Enabled(f.w)
        /\ n >= 3
        /\ L[n].err = ErrPermission
        /\ L[n].stmt < Len(Stmts)
        /\ \E j \in 1..(n - 2) :
              /\ L[j].err \in RaceErrors
              /\ L[j + 1].stmt = L[j].stmt
              /\ L[j + 1].err = ErrNil

\* entry j of the log is the third failed attempt of a statement, a race
Exhausted(log, j) == log[j].err \in RaceErrors /\ log[j].attempt = 2

\* C17 as stated: a statement that still fails with a schema-race error at
\* its last attempt makes ensureSchema report failure, and the
\* initialization returns a disabled writer.
C17_AsStated ==
    \A p \in Procs :
        LET f == ini[p] IN
        (f.pc = "end" /\ \E j \in 1..Len(f.log) : Exhausted(f.log, j)) =>
            (f.failed = "schema" /\ ~Enabled(f.w))

\* C17: a statement that still fails with a schema-race error at its third
\* attempt is passed over: ensureSchema goes on to the next statement, or
\* returns nil when it was the last one, and does not report that error;
\* when no statement fails with another error, ensureSchema returns nil and
\* the initialization returns an enabled writer.
C17_ExhaustedRaceIsPassedOver ==
    \A p \in Procs :
        LET f == ini[p]
            L == f.log
            n == Len(L)
        IN  /\ \A j \in 1..(n - 1) : Exhausted(L, j) => L[j + 1].stmt = L[j].stmt + 1
            /\ (n > 0 /\ Exhausted(L, n)) =>
                  IF L[n].stmt < Len(Stmts)
                  THEN f.pc = "exec" /\ f.k = L[n].stmt + 1 /\ f.attempt = 0
                  ELSE f.pc \in {"check", "end"} /\ f.err = ErrNil
            /\ (f.pc = "end" /\ n > 0 /\ L[n].err \in RaceErrors \cup {ErrNil}) =>
                  (f.failed = "" /\ Enabled(f.w))

\* a statement failed three times with a race error, and the initialization
\* ends with an enabled writer
C17_Witness ==
    LET f == ini["p1"] IN
    /\ f.pc = "end"
    /\ \E j \in 1..Len(f.log) : Exhausted(f.log, j)
    /\ Enabled(f.w)

\* C18: with two processes provisioning a fresh database at once, a create
\* statement that loses a race failing with a schema-race error: no
\* execution fails with another error, ensureSchema returns nil in both
\* processes, both end with an enabled writer, and all objects exist.
C18_ConcurrentProvisioning ==
    \A p \in Procs :
        LET f == ini[p] IN
        /\ \A j \in 1..Len(f.log) : f.log[j].err \in RaceErrors \cup {ErrNil}
        /\ f.pc \in {"check", "end"} =>
              (f.err = ErrNil /\ \A k \in 1..Len(Stmts) : Stmts[k] \in catalog)
        /\ f.pc = "end" => Enabled(f.w)
        /\ once[p] = "done" => (Enabled(globalWriter[p]) /\ pool[p] = "open")

\* one process has finished with tracing enabled, the other lost a race
\* for a table and a race for an index and ends with tracing enabled too
C18_Witness ==
    /\ once["p2"] = "done"
    /\ Enabled(globalWriter["p2"])
    /\ ini["p1"].pc = "end"
    /\ Enabled(ini["p1"].w)
    /\ \E j \in 1..Len(ini["p1"].log) : ini["p1"].log[j].err = ErrDupPgType
    /\ \E j \in 1..Len(ini["p1"].log) : ini["p1"].log[j].err = ErrRelationExists

---------------------------------------------------------------------------
(* The classification of errors *)

Classified == rPc = "done"

\* C19: isSchemaRaceError answers false for the nil error and for an error
\* whose text has none of the signatures (a permission-denied error, a
\* duplicate key on another index, "does not exist"), and true exactly when
\* the text names pg_type_typname_nsp_index, or is a duplicate-key violation
\* naming a pg_type index, or says "already exists", in any letter case.
C19_RaceSignatures ==
    Classified =>
        /\ rErr = ErrNil => ~rRes
        /\ rErr = ErrPermission => ~rRes
        /\ rErr # ErrNil =>
              (rRes <=> \/ rErr.object = "typname_index"
                        \/ (rErr.phrase = "duplicate" /\ rErr.object = "oid_index")
                        \/ rErr.tail = "exists")

\* an upper-case duplicate-key error on another pg_type index was taken for
\* a race
C19_Witness ==
    /\ Classified
    /\ rErr # ErrNil
    /\ rErr.upper
    /\ rErr.phrase = "duplicate"
    /\ rErr.object = "oid_index"
    /\ rErr.tail = "none"
    /\ rRes

---------------------------------------------------------------------------
(* Recording tool events *)

\* how often x occurs in the sequence s
Count(s, x) == Cardinality({k \in 1..Len(s) : s[k] = x})

\* the tool_events rows of a Run
RowsOf(r) == SelectSeq(toolRows, LAMBDA row : row.task_id = r)

\* the goroutines whose call for Run r is at one of the positions
AtPc(r, pcs) == {t \in Recorders : rf[t].run = r /\ rf[t].pc \in pcs}

Quiet == \A t \in Recorders : rf[t].pc \in {"idle", "done"}

\* C20 as stated: once the calls have returned, the Run's list holds one
\* entry, and the table one row, for every RecordToolEvent call made for
\* that Run on the enabled writer.
C20_AsStated ==
    Quiet =>
        \A r \in RunIds :
            /\ Len(runs[r].toolEvents) = recCalls[r]
            /\ Len(RowsOf(r)) = recCalls[r]

\* C20: a RecordToolEvent call on an enabled writer with a non-nil Run whose
\* insert succeeds inserts one tool_events row and then appends the event to
\* the Run's list; a call whose insert fails does neither.  So the Run's
\* list, with the appends about to be made, holds one entry for every row of
\* that Run, event by event, and once the calls have returned it holds one
\* entry for every call but those whose insert failed.
C20_RecordsRowAndEvent ==
    \A r \in RunIds :
        /\ Len(RowsOf(r)) = Len(runs[r].toolEvents) + Cardinality(AtPc(r, {"lock", "read", "append"}))
        /\ \A ev \in Events :
              Count(RowsOf(r), ToolRow(r, ev, 12)) =
                  Count(runs[r].toolEvents, ev)
                  + Cardinality({t \in AtPc(r, {"lock", "read", "append"}) : rf[t].ev = ev})
        /\ recCalls[r] = Len(RowsOf(r)) + recFailed[r] + Cardinality(AtPc(r, {"insert"}))
        /\ Quiet => Len(runs[r].toolEvents) = recCalls[r] - recFailed[r]

\* three calls for one Run have returned, two from one goroutine and one
\* from the other: the insert of one failed, the list holds the two others
C20_Witness ==
    /\ Quiet
    /\ recCalls["task1"] = 3
    /\ recFailed["task1"] = 1
    /\ Len(runs["task1"].toolEvents) = 2
    /\ Len(RowsOf("task1")) = 2
    /\ \A t \in Recorders : rf[t].pc = "done" /\ rf[t].op = "RecordToolEvent"

---------------------------------------------------------------------------
(* Finishing a Run *)

\* the traces rows of a task id
TracesOf(table, run) == SelectSeq(table, LAMBDA row : row.task_id = run)

\* a FinishRun call of goroutine t gets its upsert accepted in this step
UpsertAccepted(t) == ff[t].pc = "upsert" /\ ff'[t].pc = "done" /\ ff'[t].err = ErrNil

C21_Step ==
    \A t \in Finishers :
        UpsertAccepted(t) =>
            LET f == ff[t]
                was == TracesOf(traces, f.run)
                now == TracesOf(traces', f.run)
            IN  /\ Len(was) <= 1
                /\ Len(now) = 1
                /\ now[1].exit_code = f.exitCode
                /\ now[1].ended_at = f.endedAt
                /\ now[1].duration_ms = f.durationMS
                /\ now[1].tool_count = Len(f.toolEvents)
                /\ now[1].error_count = f.errorCount
                /\ now[1].tools_json = MarshalEvents(f.toolEvents)
                /\ now[1].gateway = RunFields(f.run).Gateway
                /\ now[1].sender = RunFields(f.run).Sender
                /\ now[1].preview = RunFields(f.run).Subject
                /\ now[1].started_at = RunFields(f.run).StartedAt
                /\ \A r \in RunIds \ {f.run} : TracesOf(traces', r) = TracesOf(traces, r)

ErrorsIn(evs) == Len(SelectSeq(evs, LAMBDA ev : ev.IsError))

\* the goroutines between the insert of a row for Run r and the end of its
\* append
Pending(r) == AtPc(r, {"lock", "read", "append"})

\* goroutine t holds a snapshot of its Run that was taken after every append
\* made for the Run so far
SnapshotAfterAppends(t) ==
    /\ ff[t].pc = "upsert"
    /\ Pending(ff[t].run) = {}
    /\ Len(runs[ff[t].run].toolEvents) = Len(ff[t].toolEvents)

\* C22: the appends to one Run's list made by the recording goroutines, in
\* any interleaving, followed by one snapshot, give a snapshot whose length
\* is the number of appends (one for each row stored for the Run), that
\* holds each appended event as often as it was appended, and an error
\* count equal to the number of events in it whose error flag is set.
C22_ConcurrentAppendsThenSnapshot ==
    \A t \in Finishers :
        SnapshotAfterAppends(t) =>
            LET f == ff[t] IN
            /\ Len(f.toolEvents) = Len(RowsOf(f.run))
            /\ \A ev \in Events :
                  Count(f.toolEvents, ev) = Count(RowsOf(f.run), ToolRow(f.run, ev, 12))
            /\ f.errorCount = ErrorsIn(f.toolEvents)

\* both recording goroutines have appended to task1, one a failed call and
\* one a clean one, and the snapshot taken afterwards holds both
C22_Witness ==
    /\ SnapshotAfterAppends("f1")
    /\ ff["f1"].run = "task1"
    /\ \A t \in Recorders :
          rf[t].pc = "done" /\ rf[t].op = "RecordToolEvent" /\ rf[t].run = "task1"
    /\ rf["w1"].ev = EvExec
    /\ rf["w2"].ev = EvRead
    /\ Len(ff["f1"].toolEvents) = 2
    /\ ff["f1"].errorCount = 1


C23_Step ==
    \A r \in RunIds :
        /\ runs'[r].errorCount >= runs[r].errorCount
        /\ IsPrefix(runs[r].toolEvents, runs'[r].toolEvents)
        /\ Len(runs'[r].toolEvents) <= Len(runs[r].toolEvents) + 1

\* C23: in every step of every operation on a Run (recording, append,
\* snapshot, finishing) the Run's error counter does not decrease and its
\* event list is left as it is or gets one event at its end: every event
\* already in the list keeps its position and content.
C23_RunOnlyGrows == [][C23_Step]_vars

\* three events were appended to task1, the second by another call than the
\* first: they stand in the order of their appends, two of them flagged
C23_Witness ==
    /\ runs["task1"].toolEvents = <<EvExec, EvRead, EvExec>>
    /\ runs["task1"].errorCount = 2
    /\ runs["task1"].mu = None


---------------------------------------------------------------------------
(* Writes that the database refuses, and writers that are off *)

WriteOps == {"FinishRun", "RecordContextEvent", "RecordRunEvent"}

\* in this step the statement of goroutine t's call comes back with an error
WriteRefused(t) ==
    /\ ff'[t] # ff[t]
    /\ ff'[t].op \in WriteOps
    /\ ff'[t].sent
    /\ ff'[t].err # ErrNil

\* in this step the insert of goroutine t's RecordToolEvent comes back with
\* an error
InsertRefused(t) == rf[t].pc = "insert" /\ rf'[t] # rf[t] /\ recFailed' # recFailed

TablesUnchanged ==
    /\ toolRows' = toolRows
    /\ traces' = traces
    /\ runEvents' = runEvents

C24_Step ==
    /\ tw' = tw
    /\ \A t \in Finishers :
          /\ WriteRefused(t) => ff'[t].pc = "done" /\ TablesUnchanged /\ runs' = runs
          /\ (nrec' = nrec + 1 /\ ff'[t] # ff[t] /\ ff'[t].op = "FinishRun"
                /\ Enabled(tw) /\ ff'[t].run # NilRun) => ff'[t].pc = "lock"
    /\ \A t \in ToolRecorders :
          /\ InsertRefused(t) => rf'[t].pc = "done" /\ TablesUnchanged /\ runs' = runs
          /\ (nrec' = nrec + 1 /\ rf'[t] # rf[t] /\ Enabled(tw) /\ rf'[t].run # NilRun)
                => rf'[t].pc = "insert"

\* C24: when the insert or upsert of RecordToolEvent, RecordContextEvent,
\* RecordRunEvent or FinishRun comes back with an error, the call returns in
\* that same step (the statement is not sent again) leaving every table and
\* every Run as they were; no step changes the writer, so it stays enabled,
\* and a RecordToolEvent or FinishRun call made on it with a Run goes on to
\* its own write whatever failed before.
C24_WriteFailuresSwallowed == [][C24_Step]_vars

\* on an enabled writer the upsert of FinishRun and the insert of
\* RecordToolEvent were both refused: both calls have returned, nothing is
\* stored
C24_Witness ==
    /\ Enabled(tw)
    /\ ff["f1"] = Came("FinishRun", "task1", ErrPermission)
    /\ rf["w1"].pc = "done"
    /\ rf["w1"].op = "RecordToolEvent"
    /\ recFailed["task1"] = 1
    /\ recCalls["task1"] = 1
    /\ toolRows = <<>>
    /\ traces = <<>>
    /\ runs["task1"].toolEvents = <<>>


\* the writer being off, or the Run given being nil, goroutine t's call of
\* this step has nothing to write
NothingToWrite(writer, f) == writer # EnabledWriter \/ (f.run = NilRun /\ f.op # "ensureSchema")

C25_Step ==
    /\ \A t \in Finishers :
          (ff'[t] # ff[t] /\ NothingToWrite(tw, ff'[t])) =>
              /\ ff'[t].pc = "done"
              /\ ~ff'[t].sent
              /\ ff'[t].err = ErrNil
              /\ TablesUnchanged
              /\ runs' = runs
    /\ \A t \in ToolRecorders :
          (rf'[t] # rf[t] /\ NothingToWrite(tw, rf'[t])) =>
              /\ rf'[t].pc = "done"
              /\ rf'[t].op = "skipped"
              /\ TablesUnchanged
              /\ runs' = runs
              /\ recCalls' = recCalls

\* C25: a call of RecordToolEvent, RecordContextEvent, RecordRunEvent or
\* FinishRun on a disabled writer, on a nil writer or with a nil Run, and a
\* call of ensureSchema on a disabled or nil writer, returns in its first
\* step without an error: no statement is sent, no table changes, and every
\* Run keeps its event list and error counter.
C25_DisabledWriterNoOp == [][C25_Step]_vars

\* three calls were made on the nil writer, the last ones a FinishRun and a
\* RecordToolEvent for task1: nothing is stored, the Run is as it was made
C25_Witness ==
    /\ tw = NilWriter
    /\ nrec = 3
    /\ ff["f1"] = Skipped("FinishRun", "task1")
    /\ rf["w1"].pc = "done"
    /\ rf["w1"].op = "skipped"
    /\ rf["w1"].run = "task1"
    /\ toolRows = <<>>
    /\ traces = <<>>
    /\ runEvents = <<>>
    /\ runs["task1"] = Run0


---------------------------------------------------------------------------
(* Run and iteration through a context *)

HasKey(c, key) == \E i \in 1..Len(c) : c[i].key = key

\* C26: after WithRun(ctx, r) with a non-nil r, RunFromContext returns r and
\* true, whatever Run was attached before (the innermost wins), and the
\* iteration is the one of the context it was derived from; WithRun(ctx, nil)
\* returns ctx itself; after WithIteration(ctx, n), IterationFromContext
\* returns n and the Run is the one of the context it was derived from; a
\* value another package attached changes neither; a context without a Run
\* gives nil and false, and one without an iteration gives 0.
C26_ContextPropagation ==
    /\ (cOp.op = "WithRun" /\ cOp.arg # NilRun) =>
          /\ RunFromContext(ctx) = [run |-> cOp.arg, ok |-> TRUE]
          /\ IterationFromContext(ctx) = IterationFromContext(cOp.before)
    /\ (cOp.op = "WithRun" /\ cOp.arg = NilRun) => ctx = cOp.before
    /\ cOp.op = "WithIteration" =>
          /\ IterationFromContext(ctx) = cOp.arg
          /\ RunFromContext(ctx) = RunFromContext(cOp.before)
    /\ cOp.op = "WithValue" =>
          /\ IterationFromContext(ctx) = IterationFromContext(cOp.before)
          /\ RunFromContext(ctx) = RunFromContext(cOp.before)
    /\ ~HasKey(ctx, RunKey) => RunFromContext(ctx) = [run |-> NilRun, ok |-> FALSE]
    /\ ~HasKey(ctx, IterationKey) => IterationFromContext(ctx) = 0

\* task2 was attached inside a context that carried task1 and iteration 2:
\* task2 is the Run retrieved, the iteration is still 2
C26_Witness ==
    /\ cOp.op = "WithRun"
    /\ Len(ctx) = 3
    /\ ctx[1].key = RunKey /\ ctx[1].val = "task1"
    /\ ctx[2].key = IterationKey /\ ctx[2].val = 2
    /\ ctx[3].key = RunKey /\ ctx[3].val = "task2"
    /\ RunFromContext(ctx) = [run |-> "task2", ok |-> TRUE]
    /\ IterationFromContext(ctx) = 2


---------------------------------------------------------------------------
(* The snapshot that FinishRun writes *)

C27_Step ==
    \A t \in Finishers :
        LET f == ff[t] IN
        /\ (f.pc = "count" /\ ff'[t].pc = "upsert") =>
              /\ ff'[t].toolEvents = runs[f.run].toolEvents
              /\ ff'[t].errorCount = runs[f.run].errorCount
        /\ (f.pc = "upsert" /\ ff'[t].pc = "upsert") =>
              /\ ff'[t].toolEvents = f.toolEvents
              /\ ff'[t].errorCount = f.errorCount
        /\ UpsertAccepted(t) =>
              LET row == TracesOf(traces', f.run)[1] IN
              /\ IsPrefix(f.toolEvents, runs[f.run].toolEvents)
              /\ f.errorCount = ErrorsIn(f.toolEvents)
              /\ row.tool_count = Len(f.toolEvents)
              /\ row.error_count = ErrorsIn(f.toolEvents)
              /\ row.tools_json = MarshalEvents(f.toolEvents)

\* C27: when snapshot returns, the events and the error count it returns
\* are the Run's list and counter of that one moment; while the call goes on
\* they stay what they were, whatever is appended to the Run meanwhile; and
\* the row an accepted upsert leaves has the length of that list as
\* tool_count, the number of flagged events in it as error_count, and its
\* serialization as tools_json.
C27_RowFromOneSnapshot == [][C27_Step]_vars

\* FinishRun holds a snapshot of task1 with one clean event and has not
\* written yet; meanwhile a failed event was appended to the Run
C27_Witness ==
    /\ ff["f1"].pc = "upsert"
    /\ ff["f1"].run = "task1"
    /\ ff["f1"].toolEvents = <<EvRead>>
    /\ ff["f1"].errorCount = 0
    /\ runs["task1"].toolEvents = <<EvRead, EvExec>>
    /\ runs["task1"].errorCount = 1


---------------------------------------------------------------------------
(* The two scans of the guard *)

IsAlnumText(s) == \A k \in 1..Len(s) : IsAlnum(s[k])

\* the calls made with an api_key / apikey argument whose value is at least
\* MinApiKey letters and digits
ApiKeyEntry ==
    /\ aPc \in {"outbound", "done"}
    /\ aKey \in ApiKeyNames
    /\ Len(ArgTextOf(aShape)) >= MinApiKey
    /\ IsAlnumText(ArgTextOf(aShape))

\* C28: BeforeTool returns a blocking error for an argument map whose key is
\* api_key or apikey and whose value is a string of at least 12 letters and
\* digits.
C28_AsStated == ApiKeyEntry => aTool # NoErr

\* what the code does on those calls: the quote that json.Marshal puts
\* between the key and the colon keeps the api_key pattern from matching
C28_EntryPasses == ApiKeyEntry => aTool = NoErr

\* {"api_key": "a7a7a7a7a7a7"} went through BeforeTool and was let pass
C28_Witness ==
    /\ aPc = "done"
    /\ aKey = ApiKeyName
    /\ ArgTextOf(aShape) = BodyOf("alnum", MinApiKey)
    /\ Marshal(ArgsOf(aKey, ArgTextOf(aShape)))
          = <<"{", "\"">> \o ApiKeyName \o <<"\"", ":", "\"">>
            \o BodyOf("alnum", MinApiKey) \o <<"\"", "}">>
    /\ aTool = NoErr

\* the texts that BeforeOutbound blocks as message content
OutboundBlocked == aPc = "done" /\ aOut # NoErr

\* C29: whenever BeforeOutbound blocks a message whose content is t,
\* BeforeTool blocks an invocation that has t as the value of an argument.
C29_AsStated == OutboundBlocked => aTool # NoErr

\* the code agrees with the claim on the texts whose match survives the
\* escaping: no quote, "<" or other escaped character inside or right
\* before the match
C29_AgreesWhenUnescaped ==
    (OutboundBlocked /\ EscapeString(ArgTextOf(aShape)) = ArgTextOf(aShape))
        => aTool # NoErr

\* api-key = "a7a7a7a7a7a7 is blocked as content and passes as the value of
\* the argument config
C29_Witness ==
    /\ aPc = "done"
    /\ aKey = ConfigKey
    /\ aShape.pat = "api-key"
    /\ aShape.n = MinApiKey
    /\ aShape.pre = <<>>
    /\ aOut = ErrOutboundSecret
    /\ aTool = NoErr


---------------------------------------------------------------------------
(* The status and error columns of a tool_events row *)

C30_Step ==
    /\ \A i \in 1..Len(toolRows') : toolRows'[i].status \in {"done", "error"}
    /\ \A t \in ToolRecorders :
          (rf[t].pc = "insert" /\ Len(toolRows') = Len(toolRows) + 1) =>
              LET row == toolRows'[Len(toolRows')]
                  ev  == rf[t].ev
              IN  /\ row.status = (IF ev.IsError THEN "error" ELSE "done")
                  /\ row.error.null = (TrimSpace(ev.ErrorMsg) = <<>>)
                  /\ ~row.error.null => row.error.text = ev.ErrorMsg

\* C30: the row an accepted insert of RecordToolEvent adds has status
\* "error" when the event's IsError is set and "done" otherwise, its error
\* column is NULL when ErrorMsg is empty or white space only and holds
\* ErrorMsg unchanged otherwise; no row of tool_events has another status.
C30_RowStatusAndError == [][C30_Step]_vars

\* rows were written for a flagged event with a blank error text and for an
\* unflagged event with an error text
C30_Witness ==
    \E i, j \in 1..Len(toolRows) :
        /\ toolRows[i].status = "error"
        /\ toolRows[i].error = Null
        /\ toolRows[j].status = "done"
        /\ toolRows[j].error = NotNull(EvWarn.ErrorMsg)


---------------------------------------------------------------------------
(* Milestone rows and the Run *)

ContextTag == "__context__"

\* a call is made in this step and no tool event is recorded by it, while
\* goroutine t is back from a call of op: the call is that one, or one that
\* left every frame as it was
MilestoneCall(t, op) ==
    /\ nrec' = nrec + 1
    /\ rf' = rf
    /\ ff'[t].op = op
    /\ ff'[t].pc = "done"

\* the step adds exactly one row to the table
OneMore(table, table2) == Len(table2) = Len(table) + 1 /\ SubSeq(table2, 1, Len(table)) = table

\* the context row of goroutine t's call is the one row added to tool_events
ContextRowAdded(t) ==
    /\ OneMore(toolRows, toolRows')
    /\ toolRows'[Len(toolRows')].tool = ContextTag
    /\ toolRows'[Len(toolRows')].task_id = ff'[t].run
    /\ toolRows'[Len(toolRows')].args_json # Marshal(ArgsNil)

\* the row of goroutine t's call is the one row added to run_events
RunEventRowAdded(t) ==
    /\ OneMore(runEvents, runEvents')
    /\ runEvents'[Len(runEvents')].task_id = ff'[t].run
    /\ TrimSpace(runEvents'[Len(runEvents')].event_type) # <<>>
    /\ runEvents'[Len(runEvents')].status \in {"ok"} \cup (Statuses \ {""})

\* the call of goroutine t had its insert accepted
Accepted(t) == ff'[t].sent /\ ff'[t].err = ErrNil

C31_Step ==
    /\ \A t \in Finishers :
          /\ MilestoneCall(t, "RecordContextEvent") =>
                /\ runs' = runs
                /\ traces' = traces
                /\ runEvents' = runEvents
                /\ toolRows' = toolRows \/ (Accepted(t) /\ ContextRowAdded(t))
                /\ (ff'[t] # ff[t] /\ Accepted(t)) => ContextRowAdded(t)
          /\ MilestoneCall(t, "RecordRunEvent") =>
                /\ runs' = runs
                /\ traces' = traces
                /\ toolRows' = toolRows
                /\ runEvents' = runEvents \/ (Accepted(t) /\ RunEventRowAdded(t))
                /\ (ff'[t] # ff[t] /\ Accepted(t)) => RunEventRowAdded(t)
    /\ \A r \in RunIds :
          /\ \A i \in 1..Len(runs'[r].toolEvents) : runs'[r].toolEvents[i].Tool # ContextTag
          /\ \A i \in 1..Len(TracesOf(traces', r)) :
                LET row == TracesOf(traces', r)[i] IN
                /\ row.tool_count <= Len(runs'[r].toolEvents)
                /\ row.error_count = ErrorsIn(SubSeq(runs'[r].toolEvents, 1, row.tool_count))
                /\ row.tools_json = MarshalEvents(SubSeq(runs'[r].toolEvents, 1, row.tool_count))

\* C31: a call of RecordContextEvent or RecordRunEvent leaves every Run and
\* the traces table as they were; RecordContextEvent adds at most one
\* tool_events row, tagged __context__, and none for a nil payload;
\* RecordRunEvent adds at most one run_events row, none for an empty or blank
\* event type, and the status of the row is never empty ("ok" stands for the
\* empty one).  No Run ever holds an event tagged __context__, and each traces
\* row counts and serializes events of its Run's list only.
C31_MilestonesLeaveRunAlone == [][C31_Step]_vars

\* a context snapshot and a run event with empty status were stored for
\* task1, then FinishRun wrote its traces row: the row counts no event
C31_Witness ==
    /\ Len(toolRows) = 1
    /\ toolRows[1].tool = ContextTag
    /\ toolRows[1].task_id = "task1"
    /\ Len(runEvents) = 1
    /\ runEvents[1].task_id = "task1"
    /\ runEvents[1].status = "ok"
    /\ Len(traces) = 1
    /\ traces[1].task_id = "task1"
    /\ traces[1].tool_count = 0
    /\ traces[1].error_count = 0


---------------------------------------------------------------------------
(* The error counter of a Run *)

\* C32: in every state each Run's error counter is the number of events in
\* its list whose error flag is set; the pair a snapshot returned has that
\* property too, so its error count is at most the length of its list, and
\* in every traces row error_count is at most tool_count.
C32_ErrorCountIsFlaggedEvents ==
    /\ \A r \in RunIds : runs[r].errorCount = ErrorsIn(runs[r].toolEvents)
    /\ \A t \in Finishers :
          ff[t].pc = "upsert" =>
              /\ ff[t].errorCount = ErrorsIn(ff[t].toolEvents)
              /\ ff[t].errorCount <= Len(ff[t].toolEvents)
    /\ \A i \in 1..Len(traces) :
          /\ traces[i].error_count <= traces[i].tool_count
          /\ traces[i].error_count >= 0

\* two goroutines appended to task1, a failed call and a clean one, and the
\* traces row written afterwards counts two events and one error
C32_Witness ==
    /\ runs["task1"].toolEvents \in {<<EvRead, EvExec>>, <<EvExec, EvRead>>}
    /\ runs["task1"].errorCount = 1
    /\ rf["w1"].run = "task1"
    /\ rf["w2"].run = "task1"
    /\ Len(traces) = 1
    /\ traces[1].task_id = "task1"
    /\ traces[1].tool_count = 2
    /\ traces[1].error_count = 1


---------------------------------------------------------------------------
(* The Run's list and the rows stored for it *)

\* the tool_events rows of a task that are not context snapshots
ToolRowsOf(r) == SelectSeq(toolRows, LAMBDA row : row.task_id = r /\ row.tool # ContextTag)

\* C33: at every moment a Run's list is no longer than the tool_events rows
\* stored for its task id, context snapshots left aside, and its i-th event
\* is the event of the i-th of those rows (one goroutine records, so rows
\* and appends come in the same order); the tool_count of a traces row for
\* the task is at most that number of rows.
C33_ListWithinStoredRows ==
    \A r \in RunIds :
        /\ Len(runs[r].toolEvents) <= Len(ToolRowsOf(r))
        /\ \A i \in 1..Len(runs[r].toolEvents) :
              ToolRowsOf(r)[i] = ToolRow(r, runs[r].toolEvents[i], ToolRowsOf(r)[i].result_len)
        /\ \A i \in 1..Len(TracesOf(traces, r)) :
              TracesOf(traces, r)[i].tool_count <= Len(ToolRowsOf(r))

\* task1 has a context snapshot and the row of one tool call stored, and the
\* row is there while the append of its event is still to come
C33_Witness ==
    /\ Len(toolRows) = 2
    /\ toolRows[1].task_id = "task1"
    /\ toolRows[1].tool = ContextTag
    /\ ToolRowsOf("task1") = <<ToolRow("task1", EvExec, 12)>>
    /\ rf["w1"].pc = "lock"
    /\ runs["task1"].toolEvents = <<>>


---------------------------------------------------------------------------
(* Handlers that call the manager *)

\* the handlers of a list that the call in th has invoked so far
Invoked(list) ==
    LET recs == SelectSeq(calls[Caller], LAMBDA c : c.list = list)
    IN  [k \in 1..Len(recs) |-> recs[k].hook]

\* a dispatch the goroutine started itself has returned without an error
Dispatched(op) ==
    /\ stack = <<>>
    /\ th[Caller].pc = "done"
    /\ th[Caller].op = op
    /\ th[Caller].err = NoErr

\* C34: the manager's lock is held only between taking it and the copy or
\* append it protects, so it is free whenever a handler runs or a call made
\* by a handler begins, and every Lock or RLock a call comes to can be taken:
\* a handler's Register*, EmitError or Run* call on the same manager goes
\* through.  A dispatch ranges over the list as it was when the dispatch
\* began, so it invokes exactly those handlers, not the ones registered by
\* its own handlers; a dispatch that begins afterwards copies the list with
\* them in it.
C34_HooksRunUnlocked ==
    LET f == th[Caller] IN
    /\ f.pc \notin {"append", "snap", "e_snap"} => muW = None /\ muR = {}
    /\ f.pc = "append" => muW = Caller /\ muR = {}
    /\ f.pc \in {"snap", "e_snap"} => muW = None /\ muR = {Caller}
    /\ f.pc \in {"loop", "e_loop"} /\ f.op \in RunOps => f.hooks = f.atCall
    /\ f.pc \in {"rlock", "snap"} => f.atCall = ListOf(f.op)
    /\ \A op \in RunOps : Dispatched(op) => Invoked(ListName(op)) = f.atCall

\* the goroutine registered bt_reg and dispatched twice: the first dispatch
\* ran bt_reg, which registered bt_rename; the second ran bt_reg and
\* bt_rename, and not the bt_rename that its own bt_reg registered
C34_Witness ==
    /\ Dispatched("RunBeforeTool")
    /\ Invoked("beforeTool") = <<"bt_reg", "bt_rename">>
    /\ beforeTool = <<"bt_reg", "bt_rename", "bt_rename">>
    /\ th[Caller].ret.val.Name = "renamed"


---------------------------------------------------------------------------
(* Concurrent registrations *)

\* handler a stands before handler b in the list
Precedes(list, a, b) ==
    \E i, j \in 1..Len(list) : i < j /\ list[i] = a /\ list[j] = b

\* C35: whatever the interleaving of the Register* calls of two goroutines
\* with each other and with a dispatch, the four lists together hold one
\* handler for every Register* call that has returned: no handler twice, none
\* of a call still under way, each in the list of its method, and a handler
\* stands after the one its goroutine registered on that list before it.
\* When all N calls have returned the lists hold N handlers.
C35_NoRegistrationLost ==
    /\ Len(AllHooks) = nregs - Cardinality(Registering)
    /\ \A i, j \in 1..Len(AllHooks) : i # j => AllHooks[i] # AllHooks[j]
    /\ \A t \in Registering : ~InList(AllHooks, th[t].arg)
    /\ \A t \in Threads : \A r \in Registrations[t] :
          InList(AllHooks, r.h) =>
              /\ InList(ListOf(r.op), r.h)
              /\ r.after # NilHook => Precedes(ListOf(r.op), r.after, r.h)

\* four calls have returned; on the before-tool list the handler of the
\* second goroutine stands between the two of the first, which has
\* dispatched since
C35_Witness ==
    /\ nregs = MaxConc
    /\ Registering = {}
    /\ beforeTool = <<"bt_rename", "bt_guard", "bt_deny">>
    /\ onError = <<"oe_log">>
    /\ th["g1"].op = "RunBeforeTool"
    /\ th["g1"].pc = "done"


---------------------------------------------------------------------------
(* A handler that fails after the value was rewritten *)

\* goroutine t's dispatch op has returned an error
Failed(t, op) == th[t].op = op /\ th[t].pc = "done" /\ th[t].ret.err # NoErr

\* each handler was handed what the one before it returned, the first one
\* the caller's value; the call returned what the last one returned
ReturnsFailingHooksValue(t, list) ==
    LET recs == LogOf(t, list)
        last == recs[Len(recs)]
    IN  /\ recs # <<>>
        /\ recs[1].arg = th[t].arg
        /\ \A k \in 2..Len(recs) : recs[k].arg = recs[k - 1].res.val
        /\ \A k \in 1..(Len(recs) - 1) : recs[k].res.err = NoErr
        /\ th[t].ret = last.res

\* every on-error handler the call invoked was handed stage, the error
\* returned, and meta
ErrorHooksHanded(t, stage, meta) ==
    /\ th[t].meta = meta
    /\ \A k \in 1..Len(LogOf(t, "onError")) :
          LogOf(t, "onError")[k].arg = <<stage, th[t].ret.err, meta>>

\* C36: a RunBeforeTool or RunBeforeOutbound call that returns an error
\* returns with it the value the failing handler returned, that handler
\* having been handed the value as the handlers before it rewrote it; the
\* on-error handlers are handed metadata with the tool name, or the channel
\* and chat id, of the value the caller passed in.
C36_FailureAfterRewrite ==
    \A t \in Dispatchers :
        /\ Failed(t, "RunBeforeTool") =>
              /\ ReturnsFailingHooksValue(t, "beforeTool")
              /\ ErrorHooksHanded(t, "before_tool", {<<"tool", th[t].arg.Name>>})
        /\ Failed(t, "RunBeforeOutbound") =>
              /\ ReturnsFailingHooksValue(t, "beforeOutbound")
              /\ ErrorHooksHanded(t, "before_outbound",
                                  {<<"channel", th[t].arg.Channel>>,
                                   <<"chat_id", th[t].arg.ChatID>>})

\* bo_reroute rewrote channel and chat id, bo_deny rewrote the chat id again
\* and failed: the message returned is bo_deny's, and oe_log was handed the
\* channel and chat id the caller gave
C36_Witness ==
    /\ Failed("g1", "RunBeforeOutbound")
    /\ th["g1"].arg.Channel = "telegram"
    /\ th["g1"].arg.ChatID = "42"
    /\ Len(LogOf("g1", "beforeOutbound")) = 2
    /\ LogOf("g1", "beforeOutbound")[2].arg.Channel = "email"
    /\ LogOf("g1", "beforeOutbound")[2].arg.ChatID = "rerouted"
    /\ th["g1"].ret.val.Channel = "email"
    /\ th["g1"].ret.val.ChatID = "denied"
    /\ Len(LogOf("g1", "onError")) = 1
    /\ LogOf("g1", "onError")[1].arg[3] = {<<"channel", "telegram">>, <<"chat_id", "42">>}


---------------------------------------------------------------------------
(* The guard of a default manager *)

\* the guard's method on the list a Run* method works on
GuardMethod(list) == IF list = "beforeTool" THEN "bt_guard" ELSE "bo_guard"

\* the guard is the first handler of the list and stands nowhere else
GuardLeads(hooks, list) ==
    /\ hooks # <<>>
    /\ hooks[1] = GuardMethod(list)
    /\ \A k \in 2..Len(hooks) : hooks[k] # GuardMethod(list)

\* in goroutine t's call the guard was invoked first, with the caller's
\* value, every other handler after the guard returned no error, and the
\* guard once only
GuardScansCallersValue(t, list) ==
    LET L == LogOf(t, list) IN
    L # <<>> =>
        /\ L[1].hook = GuardMethod(list)
        /\ L[1].arg = th[t].arg
        /\ \A k \in 2..Len(L) : L[k].hook # GuardMethod(list) /\ L[1].res.err = NoErr

\* C37: on a manager built by NewDefaultManager the guard's BeforeTool is
\* always the first handler of the before-tool list and its BeforeOutbound
\* the first of the before-outbound list, whatever is registered later; in
\* every RunBeforeTool and RunBeforeOutbound call the guard is invoked first
\* and with the value the caller passed in, a handler registered later is
\* invoked only once the guard returned no error, and the guard is not
\* invoked a second time on what those handlers return.
C37_GuardLeadsForLife ==
    /\ GuardLeads(beforeTool, "beforeTool")
    /\ GuardLeads(beforeOutbound, "beforeOutbound")
    /\ \A t \in Dispatchers :
          /\ th[t].op = "RunBeforeTool" =>
                /\ th[t].pc \notin {"rlock", "snap"} => GuardLeads(th[t].hooks, "beforeTool")
                /\ GuardScansCallersValue(t, "beforeTool")
          /\ th[t].op = "RunBeforeOutbound" =>
                /\ th[t].pc \notin {"rlock", "snap"} =>
                      GuardLeads(th[t].hooks, "beforeOutbound")
                /\ GuardScansCallersValue(t, "beforeOutbound")

\* after three registrations a tool call with clean arguments passed the
\* guard, bt_inject put a credential in the arguments, and the call returned
\* them with no error: the guard did not see them
C37_Witness ==
    /\ nregs = 3
    /\ Returned("g1", "RunBeforeTool")
    /\ th["g1"].arg.Args = ArgsQuery
    /\ HooksIn(LogOf("g1", "beforeTool")) = <<"bt_guard", "bt_inject">>
    /\ th["g1"].ret = [val |-> [th["g1"].arg EXCEPT !.Args = ArgsToken], err |-> NoErr]
    /\ containsSecret(Marshal(th["g1"].ret.val.Args))


---------------------------------------------------------------------------
(* The writer's switch *)

\* the step leaves both fields of the writer, and so Enabled(), as they are
C38_Step ==
    /\ tw'.enabled = tw.enabled
    /\ tw'.db = tw.db
    /\ Enabled(tw') = Enabled(tw)
    /\ Enabled(tw) => (tw # NilWriter /\ tw.enabled /\ tw.db # "nil")
    /\ Enabled(tw') => (tw' # NilWriter /\ tw'.enabled /\ tw'.db # "nil")

\* C38: no step of RecordToolEvent, RecordContextEvent, RecordRunEvent,
\* FinishRun or ensureSchema, whether its statement is accepted or refused,
\* changes the writer's enabled field or its database handle: a writer built
\* enabled stays enabled and one built disabled stays disabled; and
\* Enabled() is true only of a writer that is not nil, has enabled set and
\* holds a database handle.
C38_EnabledFixedAtConstruction == [][C38_Step]_vars

\* on a writer built enabled an insert was refused, a later one stored a
\* row and FinishRun stored a trace: the writer is still enabled
C38_Witness ==
    /\ tw = EnabledWriter
    /\ Enabled(tw)
    /\ nrec = 3
    /\ recFailed["task1"] = 1
    /\ toolRows # <<>>
    /\ traces # <<>>
    /\ ff["f1"].op = "FinishRun"
    /\ ff["f1"].pc = "done"
    /\ ff["f1"].err = ErrNil


---------------------------------------------------------------------------
(* Normalizing a normalized connection string *)

\* strings.HasPrefix(s, pre)
HasPrefix(s, pre) == Len(pre) <= Len(s) /\ SubSeq(s, 1, Len(pre)) = pre

\* C39 as stated: normalizing the result again gives the result, the DSN is
\* a prefix of the result, and the result contains "sslmode=".
C39_AsStated ==
    Normalized =>
        /\ ensurePostgresSSLMode(dOut) = dOut
        /\ HasPrefix(dOut, dIn)
        /\ Contains(dOut, SslModeKey)

\* C39: normalizing the result again gives the result, the DSN is a prefix
\* of the result, and the result contains "sslmode=" in some letter case: in
\* lower case whenever the function appended it, and in the letter case of
\* the DSN when the DSN was returned as it was given.
C39_IdempotentExtension ==
    Normalized =>
        /\ ensurePostgresSSLMode(dOut) = dOut
        /\ HasPrefix(dOut, dIn)
        /\ Contains(ToLower(dOut), SslModeKey)
        /\ dOut # dIn => Contains(dOut, SslModeKey)
        /\ ~Contains(dOut, SslModeKey) => (dOut = dIn /\ Contains(ToLower(dIn), SslModeKey))

\* a key-value DSN with SSLMODE=verify-full in upper case: the result is the
\* DSN, normalizing it again changes nothing, and "sslmode=" in lower case
\* is nowhere in it
C39_Witness ==
    /\ Normalized
    /\ dShape.base \in KeyValueBases
    /\ dShape.base # <<>>
    /\ dShape.ssl = <<"S","S","L","M","O","D","E","=","v","e","r","i","f","y","-","f","u","l","l">>
    /\ dOut = dIn
    /\ ensurePostgresSSLMode(dOut) = dOut
    /\ ~Contains(dOut, SslModeKey)
    /\ Contains(ToLower(dOut), SslModeKey)

===========================================================================
